---- MODULE Spec2Model ----
(***************************************************************************)
(* A model of the Agentic Knowledge Workspace backend: the security core   *)
(* (tokens, role gate), the document lifecycle (upload, background         *)
(* ingestion, read routes, delete), registration / tenant creation and the *)
(* tenant credentials service, each as a state machine over the database   *)
(* tables the code reads and writes.                                       *)
(*                                                                         *)
(* Database sessions follow SQLAlchemy's rule: once a flush or a statement *)
(* of a session has failed, every later statement of that session raises   *)
(* until the session is rolled back.                                       *)
(***************************************************************************)
EXTENDS Integers, Sequences, FiniteSets, TLC

(***************************************************************************)
(* Bounds of the model                                                     *)
(***************************************************************************)
\* document ids handed out in one behaviour
MaxDocs == 2
\* chunks the splitter may derive from one file
MaxChunks == 2
\* distinct values the 8-hex random part of a storage key may take
NumKeys == 2
\* ticks of the clock
MaxClock == 2
\* register and create-tenant requests in one behaviour
MaxReqs == 3
\* calls of the credentials service in one behaviour
MaxCredOps == 3
\* distinct initialisation vectors the cipher may draw
NumIvs == 2
\* calls of save_credentials and delete_credentials beside the agent routes
MaxAgentOps == 2
\* chunk responses of one llm.astream call
MaxResponses == 2
\* chunks one retrieval returns (top_k caps it at 10)
MaxRetrieved == 6
\* chunks in a list given to the answer engine
MaxChunkList == 4
\* distinct contents of a stored file
NumBytes == 2
\* chunk ids the searches of one retrieval return, and the largest top_k
NumChunkIds == 2
MaxTopK == 2

(***************************************************************************)
(* Program constants                                                       *)
(***************************************************************************)
\* documents.py: 10 * 1024 * 1024
MaxUploadBytes == 10485760
\* ingestion.py: commit every 10 chunks
BatchSize == 10
\* config.py, in minutes
ACCESS_TOKEN_EXPIRE_MINUTES == 30
REFRESH_TOKEN_EXPIRE_DAYS == 7
MinutesPerDay == 1440

\* rag.py lines 124 and 233: chunks[:5]
SourcesShown == 5

\* answer_engine.py line 166: chunks[:3]; line 151: min_score 0.4, in hundredths
TopChunks == 3

MinScore == 40

\* retriever.py lines 31-33, in thousandths, in tenths, as a count; line 309:
\* variations[:3]
MIN_SIMILARITY_THRESHOLD == 300

HYBRID_ALPHA == 7

RERANK_TOP_K == 30

QueryVariations == 3

(***************************************************************************)
(* Strings are sequences of one-character strings, so that lower(),        *)
(* replace() and Path.suffix are computed and not assumed.                 *)
(***************************************************************************)
RECURSIVE MapChars(_, _)
MapChars(f, s) ==
    IF s = <<>> THEN <<>>
    ELSE <<IF Head(s) \in DOMAIN f THEN f[Head(s)] ELSE Head(s)>> \o MapChars(f, Tail(s))

UpperToLower ==
    [c \in {"A", "B", "C", "D", "E", "F", "G", "H", "I", "J", "K", "L", "M",
            "N", "O", "P", "Q", "R", "S", "T", "U", "V", "W", "X", "Y", "Z"} |->
        CASE c = "A" -> "a" [] c = "B" -> "b" [] c = "C" -> "c"
          [] c = "D" -> "d" [] c = "E" -> "e" [] c = "F" -> "f"
          [] c = "G" -> "g" [] c = "H" -> "h" [] c = "I" -> "i"
          [] c = "J" -> "j" [] c = "K" -> "k" [] c = "L" -> "l"
          [] c = "M" -> "m" [] c = "N" -> "n" [] c = "O" -> "o"
          [] c = "P" -> "p" [] c = "Q" -> "q" [] c = "R" -> "r"
          [] c = "S" -> "s" [] c = "T" -> "t" [] c = "U" -> "u"
          [] c = "V" -> "v" [] c = "W" -> "w" [] c = "X" -> "x"
          [] c = "Y" -> "y" [] c = "Z" -> "z"]

\* str.lower()
Lower(s) == MapChars(UpperToLower, s)

\* str.replace(a, b) for single characters a, b
ReplaceChar(s, a, b) == MapChars([c \in {a} |-> b], s)

\* str.replace(a, "") for a single character a
RemoveChar(s, a) == SelectSeq(s, LAMBDA c : c # a)

\* str.rfind("."): the last index of a dot, 0 when there is none
LastDot(s) ==
    LET dots == {i \in 1..Len(s) : s[i] = "."}
    IN IF dots = {} THEN 0 ELSE CHOOSE i \in dots : \A j \in dots : j <= i

\* pathlib's Path(name).suffix: the part from the last dot on, empty when the
\* dot leads the name or ends it
Suffix(s) ==
    LET i == LastDot(s)
    IN IF 1 < i /\ i < Len(s) THEN SubSeq(s, i, Len(s)) ELSE <<>>

ALLOWED_EXTENSIONS ==
    { <<".", "p", "d", "f">>, <<".", "c", "s", "v">>, <<".", "m", "d">>,
      <<".", "t", "x", "t">>, <<".", "d", "o", "c", "x">> }

(***************************************************************************)
(* Security core: tokens and gates (app/core/security.py)                  *)
(***************************************************************************)
JWT_SECRET_KEY == "secret"

\* dict.update: the keys of upd override those of d
DictUpdate(d, upd) ==
    [k \in DOMAIN d \cup DOMAIN upd |-> IF k \in DOMAIN upd THEN upd[k] ELSE d[k]]

\* dict.get(k, default)
DictGet(d, k, default) == IF k \in DOMAIN d THEN d[k] ELSE default

\* jwt.encode: the claims, signed with the key
JwtEncode(claims, key) == [present |-> TRUE, payload |-> claims, sig |-> key]

\* a request without an Authorization header
NoCredentials == [present |-> FALSE, payload |-> [type |-> "none"], sig |-> "none"]

MutCreateAccessTokenCallerWins(data, t) ==
    JwtEncode(DictUpdate([exp |-> t + ACCESS_TOKEN_EXPIRE_MINUTES, type |-> "access"], data),
              JWT_SECRET_KEY)

create_access_token(data, t) ==
    JwtEncode(DictUpdate(data, [exp |-> t + ACCESS_TOKEN_EXPIRE_MINUTES, type |-> "access"]),
              JWT_SECRET_KEY)

create_refresh_token(data, t) ==
    JwtEncode(DictUpdate(data, [exp |-> t + REFRESH_TOKEN_EXPIRE_DAYS * MinutesPerDay,
                                type |-> "refresh"]),
              JWT_SECRET_KEY)

\* decode_token: the payload, or 401 on a bad signature or an expired token
decode_token(tok, t) ==
    IF tok.sig = JWT_SECRET_KEY /\ "exp" \in DOMAIN tok.payload /\ tok.payload.exp >= t
    THEN [ok |-> TRUE, code |-> 200, payload |-> tok.payload]
    ELSE [ok |-> FALSE, code |-> 401, payload |-> tok.payload]

NoUser == [user_id |-> 0, tenant_id |-> 0, role |-> "none"]

\* get_current_user: the principal of an access token, else 401.  A tenant_id
\* of 0 stands for an absent one (None).
get_current_user(cred, t) ==
    IF ~cred.present THEN [ok |-> FALSE, code |-> 401, user |-> NoUser]
    ELSE LET d == decode_token(cred, t)
         IN IF ~d.ok THEN [ok |-> FALSE, code |-> 401, user |-> NoUser]
            ELSE IF DictGet(d.payload, "type", "none") # "access"
                 THEN [ok |-> FALSE, code |-> 401, user |-> NoUser]
            ELSE IF "sub" \notin DOMAIN d.payload
                 THEN [ok |-> FALSE, code |-> 401, user |-> NoUser]
            ELSE [ok |-> TRUE, code |-> 200,
                  user |-> [user_id |-> d.payload.sub,
                            tenant_id |-> DictGet(d.payload, "tenant_id", 0),
                            role |-> DictGet(d.payload, "role", "viewer")]]

role_hierarchy == [r \in {"owner", "admin", "member", "viewer"} |->
    CASE r = "owner" -> 4 [] r = "admin" -> 3 [] r = "member" -> 2 [] r = "viewer" -> 1]

\* role_hierarchy.get(role, 0)
RoleLevel(r) == DictGet(role_hierarchy, r, 0)

MutRoleCheckerStrict(required_role, current) ==
    IF ~current.ok THEN current
    ELSE IF RoleLevel(current.user.role) <= RoleLevel(required_role)
         THEN [ok |-> FALSE, code |-> 403, user |-> current.user]
         ELSE current

\* require_role(required_role).role_checker, applied to get_current_user's result
role_checker(required_role, current) ==
    IF ~current.ok THEN current
    ELSE IF RoleLevel(current.user.role) < RoleLevel(required_role)
         THEN [ok |-> FALSE, code |-> 403, user |-> current.user]
         ELSE current

require_role(required_role, cred, t) == role_checker(required_role, get_current_user(cred, t))

\* require_tenant_access: 403 without a tenant in the token
require_tenant_access(cred, t) ==
    LET current == get_current_user(cred, t)
    IN IF ~current.ok THEN current
       ELSE IF current.user.tenant_id = 0
            THEN [ok |-> FALSE, code |-> 403, user |-> current.user]
            ELSE current


(***************************************************************************)
(* State                                                                   *)
(***************************************************************************)
VARIABLES
    \* the clock, in minutes
    now,
    \* table documents: id -> row
    documents,
    \* table chunks: rows [document_id, chunk_index]
    chunks,
    \* the storage backend: the keys that hold a file
    files,
    \* background ingestion runs: document id -> the run's position and session
    runs,
    \* how many ingestion tasks were scheduled for each document id
    nTasks,
    \* the documents sequence
    nextDocId,
    \* the last HTTP response of the document routes, with its request
    resp,
    \* table users: id -> row
    users,
    \* table tenants: id -> row
    tenants,
    \* table user_tenants: a set of rows
    memberships,
    \* register and create-tenant requests, in flight or answered, each with
    \* the uncommitted rows of its transaction
    reqs,
    \* the sequences of users and tenants
    nextUserId,
    nextTenantId,
    \* the token a client holds, with the function that minted it
    tok,
    \* the last answer of a role gate or of the refresh endpoint
    authResp,
    \* table tenant_credentials: id -> row
    tenant_credentials,
    \* calls of the credentials service, in flight or returned
    credOps,
    \* the sequence of tenant_credentials
    nextCredId,
    \* the process-wide settings (app/core/config.py), read from the environment
    settings,
    \* the last call of an agent route or of get_credentials, with its answer
    agentResp,
    \* the RAG request being served: its position, what it did, its frames
    rag,
    \* the last call of the answer engine
    ans,
    \* the local storage directory, and the last call of the storage service
    disk,
    stoResp,
    \* the retrieval under way, and the last call of _hybrid_merge
    ret,
    mrg,
    \* the database schema with its chunk rows, and the migration under way
    db,
    mig

docVars == <<documents, chunks, files, runs, nTasks, nextDocId, resp>>

regVars == <<users, tenants, memberships, reqs, nextUserId, nextTenantId>>

authVars == <<tok, authResp>>

credVars == <<tenant_credentials, credOps, nextCredId>>

agentVars == <<settings, agentResp>>

ragVars == <<rag, ans>>

stoVars == <<disk, stoResp>>

retVars == <<ret, mrg>>

migVars == <<db, mig>>

vars == <<now, docVars, regVars, authVars, credVars, agentVars, ragVars, stoVars, retVars, migVars>>

notDocVars == <<now, regVars, authVars, credVars, agentVars, ragVars, stoVars, retVars, migVars>>

notRegVars == <<now, docVars, authVars, credVars, agentVars, ragVars, stoVars, retVars, migVars>>

notAuthVars == <<docVars, regVars, credVars, agentVars, ragVars, stoVars, retVars, migVars>>

notCredVars == <<now, docVars, regVars, authVars, agentVars, ragVars, stoVars, retVars, migVars>>

notAgentVars == <<now, docVars, regVars, authVars, ragVars, stoVars, retVars, migVars>>

notRagVars == <<now, docVars, regVars, authVars, credVars, agentVars, stoVars, retVars, migVars>>

notStoVars == <<now, docVars, regVars, authVars, credVars, agentVars, ragVars, retVars, migVars>>

notRetVars == <<now, docVars, regVars, authVars, credVars, agentVars, ragVars, stoVars, migVars>>

notMigVars == <<now, docVars, regVars, authVars, credVars, agentVars, ragVars, stoVars, retVars>>

(***************************************************************************)
(* Document routes (app/api/v1/documents.py)                               *)
(***************************************************************************)
\* no storage key
NoKey == [tenant |-> 0, uuid |-> 0, name |-> <<>>]

\* storage_key: the key the request generated or read; file: what
\* delete_file did for a delete that was committed
BaseResp ==
    [op |-> "none", code |-> 0, detail |-> "", cred |-> NoCredentials, doc |-> 0,
     filename |-> <<>>, size |-> 0, status |-> "", ids |-> {}, docs |-> {}, chunks |-> {},
     storage_key |-> NoKey, file |-> "none"]

\* StorageService.generate_storage_key: tenant_{tenant_id}/{uuid}_{safe_filename}
generate_storage_key(tenant_id, filename, uuid) ==
    [tenant |-> tenant_id, uuid |-> uuid, name |-> ReplaceChar(filename, " ", "_")]

StorageKeys == {documents[d].storage_key : d \in DOMAIN documents}

\* a new ingestion run, as process_document_background starts it: its own session
NewRun(file_path, file_type) ==
    [pc |-> "queued", file_path |-> file_path, file_type |-> file_type, n |-> 0, idx |-> 0,
     pending |-> {}, broken |-> FALSE, exc |-> "none"]

Extend(f, k, v) == [x \in DOMAIN f \cup {k} |-> IF x = k THEN v ELSE f[x]]

Remove(f, k) == [x \in DOMAIN f \ {k} |-> f[x]]

MutUploadRejectionAtLimit(file) ==
    IF file.filename = <<>> THEN [code |-> 400, detail |-> "No filename provided"]
    ELSE IF Lower(Suffix(file.filename)) \notin ALLOWED_EXTENSIONS
         THEN [code |-> 400, detail |-> "File type not supported"]
    ELSE IF file.size >= MaxUploadBytes
         THEN [code |-> 400, detail |-> "File too large"]
    ELSE IF file.size = 0 THEN [code |-> 400, detail |-> "File is empty"]
    ELSE [code |-> 0, detail |-> ""]

\* the validation of upload_document: 0 when the file passes, else the status
\* code and detail of the rejection
UploadRejection(file) ==
    IF file.filename = <<>> THEN [code |-> 400, detail |-> "No filename provided"]
    ELSE IF Lower(Suffix(file.filename)) \notin ALLOWED_EXTENSIONS
         THEN [code |-> 400, detail |-> "File type not supported"]
    ELSE IF file.size > MaxUploadBytes
         THEN [code |-> 400, detail |-> "File too large"]
    ELSE IF file.size = 0 THEN [code |-> 400, detail |-> "File is empty"]
    ELSE [code |-> 0, detail |-> ""]

\* the Document row upload_document inserts
NewDocument(user, file, storage_key) ==
    [tenant_id |-> user.tenant_id, user_id |-> user.user_id, filename |-> file.filename,
     file_type |-> Tail(Lower(Suffix(file.filename))), status |-> "pending",
     storage_key |-> storage_key, error_message |-> "none"]

MutUploadStoreTaskFirst(req, user, file, uuid, saveOk, commitOk, pathOk) ==
    LET storage_key == generate_storage_key(user.tenant_id, file.filename, uuid)
        row == NewDocument(user, file, storage_key)
        id == nextDocId
        keyed == [req EXCEPT !.storage_key = storage_key]
    IN
    IF ~saveOk
    THEN /\ resp' = [keyed EXCEPT !.code = 500, !.detail = "Upload failed"]
         /\ UNCHANGED <<documents, chunks, files, runs, nTasks, nextDocId>>
    ELSE
    /\ files' = files \cup {storage_key}
    /\ nextDocId' = nextDocId + 1
    /\ UNCHANGED chunks
    /\ runs' = Extend(runs, id, NewRun(storage_key, row.file_type))
    /\ nTasks' = Extend(nTasks, id, DictGet(nTasks, id, 0) + 1)
    /\ IF ~commitOk \/ storage_key \in StorageKeys \/ user.tenant_id = 0
       THEN /\ resp' = [keyed EXCEPT !.code = 500, !.detail = "Upload failed"]
            /\ UNCHANGED documents
       ELSE /\ documents' = Extend(documents, id, row)
            /\ resp' = [keyed EXCEPT !.code = 201, !.doc = id, !.status = row.status]

\* upload_document past its validation: save the file, insert and commit the
\* row, schedule the ingestion task, answer.  saveOk: the storage backend
\* stores the file; commitOk: the database commits the row; pathOk:
\* get_file_path returns a path (the s3 backend downloads the object for it)
UploadStore(req, user, file, uuid, saveOk, commitOk, pathOk) ==
    LET storage_key == generate_storage_key(user.tenant_id, file.filename, uuid)
        row == NewDocument(user, file, storage_key)
        id == nextDocId
        keyed == [req EXCEPT !.storage_key = storage_key]
    IN
    IF ~saveOk
    THEN /\ resp' = [keyed EXCEPT !.code = 500, !.detail = "Upload failed"]
         /\ UNCHANGED <<documents, chunks, files, runs, nTasks, nextDocId>>
    ELSE
    /\ files' = files \cup {storage_key}
    \* the insert draws an id from the sequence, committed or not
    /\ nextDocId' = nextDocId + 1
    /\ UNCHANGED chunks
    /\ IF ~commitOk \/ storage_key \in StorageKeys \/ user.tenant_id = 0
       THEN \* IntegrityError or another database error: no row, no task
            /\ resp' = [keyed EXCEPT !.code = 500, !.detail = "Upload failed"]
            /\ UNCHANGED <<documents, runs, nTasks>>
       ELSE /\ documents' = Extend(documents, id, row)
            /\ IF ~pathOk
               THEN /\ resp' = [keyed EXCEPT !.code = 500, !.detail = "Upload failed"]
                    /\ UNCHANGED <<runs, nTasks>>
               ELSE \* background_tasks.add_task(process_document_background, ...)
                    /\ runs' = Extend(runs, id, NewRun(storage_key, row.file_type))
                    /\ nTasks' = Extend(nTasks, id, DictGet(nTasks, id, 0) + 1)
                    /\ resp' = [keyed EXCEPT !.code = 201, !.doc = id, !.status = row.status]

\* POST /documents/upload
upload_document(cred, file, uuid, saveOk, commitOk, pathOk) ==
    LET auth == require_role("member", cred, now)
        rej == UploadRejection(file)
        req == [BaseResp EXCEPT !.op = "upload", !.cred = cred,
                                !.filename = file.filename, !.size = file.size]
    IN
    IF ~auth.ok
    THEN /\ resp' = [req EXCEPT !.code = auth.code]
         /\ UNCHANGED <<documents, chunks, files, runs, nTasks, nextDocId>>
    ELSE IF rej.code # 0
    THEN /\ resp' = [req EXCEPT !.code = rej.code, !.detail = rej.detail]
         /\ UNCHANGED <<documents, chunks, files, runs, nTasks, nextDocId>>
    ELSE UploadStore(req, auth.user, file, uuid, saveOk, commitOk, pathOk)

MutSelectDocumentById(id, tenant_id) == {d \in DOMAIN documents : d = id}

\* the rows a select on documents by id and tenant_id returns
SelectDocument(id, tenant_id) ==
    {d \in DOMAIN documents : d = id /\ documents[d].tenant_id = tenant_id}

\* delete_document when a failed file deletion fails the request
MutDeleteDocumentFileFirst(cred, id, commitOk, fileGone) ==
    LET auth == require_role("member", cred, now)
        req == [BaseResp EXCEPT !.op = "delete", !.cred = cred, !.doc = id]
    IN
    IF ~auth.ok
    THEN /\ resp' = [req EXCEPT !.code = auth.code]
         /\ UNCHANGED <<documents, chunks, files, runs, nTasks, nextDocId>>
    ELSE IF SelectDocument(id, auth.user.tenant_id) = {}
    THEN /\ resp' = [req EXCEPT !.code = 404, !.detail = "Document not found"]
         /\ UNCHANGED <<documents, chunks, files, runs, nTasks, nextDocId>>
    ELSE IF ~commitOk \/ ~fileGone
    THEN /\ resp' = [req EXCEPT !.code = 500, !.detail = "Failed to delete document"]
         /\ documents' = IF commitOk THEN Remove(documents, id) ELSE documents
         /\ chunks' = IF commitOk THEN {c \in chunks : c.document_id # id} ELSE chunks
         /\ UNCHANGED <<files, runs, nTasks, nextDocId>>
    ELSE /\ documents' = Remove(documents, id)
         /\ chunks' = {c \in chunks : c.document_id # id}
         /\ files' = files \ {documents[id].storage_key}
         /\ resp' = [req EXCEPT !.code = 204,
                                !.storage_key = documents[id].storage_key,
                                !.file = IF documents[id].storage_key \in files
                                         THEN "deleted" ELSE "missing"]
         /\ UNCHANGED <<runs, nTasks, nextDocId>>

\* DELETE /documents/{id}.  commitOk: the database commits the delete; fileGone:
\* delete_file runs to its end, removing the stored file if there is one (else
\* the file is left: the call failed or raised, which the route logs and
\* ignores)
delete_document(cred, id, commitOk, fileGone) ==
    LET auth == require_role("member", cred, now)
        req == [BaseResp EXCEPT !.op = "delete", !.cred = cred, !.doc = id]
    IN
    IF ~auth.ok
    THEN /\ resp' = [req EXCEPT !.code = auth.code]
         /\ UNCHANGED <<documents, chunks, files, runs, nTasks, nextDocId>>
    ELSE IF SelectDocument(id, auth.user.tenant_id) = {}
    THEN /\ resp' = [req EXCEPT !.code = 404, !.detail = "Document not found"]
         /\ UNCHANGED <<documents, chunks, files, runs, nTasks, nextDocId>>
    ELSE IF ~commitOk
    THEN \* db.rollback()
         /\ resp' = [req EXCEPT !.code = 500, !.detail = "Failed to delete document"]
         /\ UNCHANGED <<documents, chunks, files, runs, nTasks, nextDocId>>
    ELSE /\ documents' = Remove(documents, id)
         \* chunks.document_id: ON DELETE CASCADE
         /\ chunks' = {c \in chunks : c.document_id # id}
         /\ files' = IF fileGone THEN files \ {documents[id].storage_key} ELSE files
         /\ resp' = [req EXCEPT !.code = 204,
                                !.storage_key = documents[id].storage_key,
                                !.file = IF ~fileGone THEN "raised"
                                         ELSE IF documents[id].storage_key \in files
                                              THEN "deleted"
                                              ELSE "missing"]
         /\ UNCHANGED <<runs, nTasks, nextDocId>>

\* GET /documents/{id}
get_document(cred, id) ==
    LET auth == require_tenant_access(cred, now)
        req == [BaseResp EXCEPT !.op = "get", !.cred = cred, !.doc = id]
    IN
    /\ resp' = IF ~auth.ok THEN [req EXCEPT !.code = auth.code]
               ELSE IF SelectDocument(id, auth.user.tenant_id) = {}
               THEN [req EXCEPT !.code = 404, !.detail = "Document not found"]
               ELSE [req EXCEPT !.code = 200, !.status = documents[id].status,
                                !.filename = documents[id].filename]
    /\ UNCHANGED <<documents, chunks, files, runs, nTasks, nextDocId>>

\* GET /documents/{id}/stats.  The route counts Chunk rows, and the module
\* never imports Chunk: for a document of the caller's tenant the NameError
\* becomes the 500 of the route's except branch.
get_document_stats(cred, id) ==
    LET auth == require_tenant_access(cred, now)
        req == [BaseResp EXCEPT !.op = "stats", !.cred = cred, !.doc = id]
    IN
    /\ resp' = IF ~auth.ok THEN [req EXCEPT !.code = auth.code]
               ELSE IF SelectDocument(id, auth.user.tenant_id) = {}
               THEN [req EXCEPT !.code = 404, !.detail = "Document not found"]
               ELSE [req EXCEPT !.code = 500, !.detail = "Failed to get document stats"]
    /\ UNCHANGED <<documents, chunks, files, runs, nTasks, nextDocId>>

\* GET /documents/
list_documents(cred) ==
    LET auth == require_tenant_access(cred, now)
        req == [BaseResp EXCEPT !.op = "list", !.cred = cred]
    IN
    /\ resp' = IF ~auth.ok THEN [req EXCEPT !.code = auth.code]
               ELSE [req EXCEPT !.code = 200,
                       !.docs = {d \in DOMAIN documents :
                                    documents[d].tenant_id = auth.user.tenant_id}]
    /\ UNCHANGED <<documents, chunks, files, runs, nTasks, nextDocId>>

(***************************************************************************)
(* Retrieval (app/services/retriever.py): the rows the two SQL queries     *)
(* admit.  An empty or absent document_ids filter admits every document.   *)
(***************************************************************************)
RetrievalRows(tenant_id, document_ids) ==
    {c \in chunks :
        /\ c.document_id \in DOMAIN documents
        /\ documents[c.document_id].tenant_id = tenant_id
        /\ (document_ids # {} => c.document_id \in document_ids)}

_vector_search(tenant_id, document_ids) == RetrievalRows(tenant_id, document_ids)

_get_all_chunks_for_bm25(tenant_id, document_ids) == RetrievalRows(tenant_id, document_ids)

\* POST /rag/query: the chunks retrieve() draws its results from
rag_query(cred, document_ids) ==
    LET auth == require_tenant_access(cred, now)
        req == [BaseResp EXCEPT !.op = "query", !.cred = cred, !.ids = document_ids]
    IN
    /\ resp' = IF ~auth.ok THEN [req EXCEPT !.code = auth.code]
               ELSE [req EXCEPT !.code = 200,
                       !.chunks = _vector_search(auth.user.tenant_id, document_ids)
                                  \cup _get_all_chunks_for_bm25(auth.user.tenant_id,
                                                                document_ids)]
    /\ UNCHANGED <<documents, chunks, files, runs, nTasks, nextDocId>>

(***************************************************************************)
(* Ingestion (app/services/ingestion.py, process_document), one action per *)
(* stretch between two awaits.  dbOk: the database executes the statements *)
(* of the step.                                                            *)
(***************************************************************************)
SetRun(d, r) == runs' = [runs EXCEPT ![d] = r]

SetStatus(d, st) == documents' = [documents EXCEPT ![d].status = st]

\* into the except branch of process_document with exception e
Raise(d, e, broken) ==
    SetRun(d, [runs[d] EXCEPT !.pc = "handler", !.exc = e, !.broken = broken, !.pending = {}])

MutProcessLoadRolledBack(d, dbOk) ==
    /\ runs[d].pc = "queued"
    /\ UNCHANGED <<chunks, files, nTasks, nextDocId, resp>>
    /\ IF ~dbOk
       THEN Raise(d, "database error", FALSE) /\ UNCHANGED documents
       ELSE IF d \notin DOMAIN documents
       THEN Raise(d, "Document not found", FALSE) /\ UNCHANGED documents
       ELSE /\ SetStatus(d, "processing")
            /\ SetRun(d, [runs[d] EXCEPT !.pc = "parse"])

\* lines 152-162: load the document, set PROCESSING, commit.  A statement that
\* fails leaves the session unusable.
ProcessLoad(d, dbOk) ==
    /\ runs[d].pc = "queued"
    /\ UNCHANGED <<chunks, files, nTasks, nextDocId, resp>>
    /\ IF ~dbOk
       THEN Raise(d, "database error", TRUE) /\ UNCHANGED documents
       ELSE IF d \notin DOMAIN documents
       THEN Raise(d, "Document not found", FALSE) /\ UNCHANGED documents
       ELSE /\ SetStatus(d, "processing")
            /\ SetRun(d, [runs[d] EXCEPT !.pc = "parse"])

\* lines 164-174: open and parse the file, chunk the text.  outcome: what the
\* file's content parses to, an error, a text under 10 characters, or the
\* number of chunks
ProcessParse(d, outcome) ==
    /\ runs[d].pc = "parse"
    /\ UNCHANGED <<documents, chunks, files, nTasks, nextDocId, resp>>
    /\ IF runs[d].file_path \notin files
       THEN Raise(d, "No such file or directory", FALSE)
       ELSE IF outcome = 0
       THEN Raise(d, "parse error", FALSE)
       ELSE IF outcome = -1
       THEN Raise(d, "Document is empty or too short", FALSE)
       ELSE SetRun(d, [runs[d] EXCEPT !.pc = "chunks", !.n = outcome, !.idx = 0])

\* lines 177-203: one turn of the chunk loop.  embedOk: generate_embedding
\* returns a vector
ProcessChunk(d, embedOk, dbOk) ==
    LET r == runs[d]
        idx == r.idx
        added == IF embedOk
                 THEN r.pending \cup {[document_id |-> d, chunk_index |-> idx]}
                 ELSE r.pending
        batch == embedOk /\ (idx + 1) % BatchSize = 0
        flushOk == dbOk /\ d \in DOMAIN documents
        next == IF idx + 1 = r.n THEN "final" ELSE "chunks"
    IN
    /\ r.pc = "chunks"
    /\ idx < r.n
    /\ UNCHANGED <<documents, files, nTasks, nextDocId, resp>>
    /\ IF batch /\ ~r.broken /\ flushOk
       THEN /\ chunks' = chunks \cup added
            /\ SetRun(d, [r EXCEPT !.pc = next, !.idx = idx + 1, !.pending = {}])
       ELSE IF batch /\ ~r.broken
       THEN \* the flush failed: the session stays unusable, its pending rows are gone
            /\ UNCHANGED chunks
            /\ SetRun(d, [r EXCEPT !.pc = next, !.idx = idx + 1, !.pending = {},
                                   !.broken = TRUE])
       ELSE /\ UNCHANGED chunks
            /\ SetRun(d, [r EXCEPT !.pc = next, !.idx = idx + 1,
                                   !.pending = IF r.broken THEN {} ELSE added])

\* a final commit on a chunks table without the foreign key to documents
MutProcessFinalCommitNoForeignKey(d, dbOk) ==
    LET r == runs[d] IN
    /\ r.pc = "final"
    /\ UNCHANGED <<documents, files, nTasks, nextDocId, resp>>
    /\ IF r.broken
       THEN Raise(d, "PendingRollbackError", TRUE) /\ UNCHANGED chunks
       ELSE IF ~dbOk
       THEN Raise(d, "database error", TRUE) /\ UNCHANGED chunks
       ELSE /\ chunks' = chunks \cup r.pending
            /\ SetRun(d, [r EXCEPT !.pc = "complete", !.pending = {}])

\* lines 205-206: the final commit of the chunks
ProcessFinalCommit(d, dbOk) ==
    LET r == runs[d] IN
    /\ r.pc = "final"
    /\ UNCHANGED <<documents, files, nTasks, nextDocId, resp>>
    /\ IF r.broken
       THEN Raise(d, "PendingRollbackError", TRUE) /\ UNCHANGED chunks
       ELSE IF ~dbOk \/ (r.pending # {} /\ d \notin DOMAIN documents)
       THEN Raise(d, "database error", TRUE) /\ UNCHANGED chunks
       ELSE /\ chunks' = chunks \cup r.pending
            /\ SetRun(d, [r EXCEPT !.pc = "complete", !.pending = {}])

\* lines 208-210: set COMPLETED, commit
ProcessComplete(d, dbOk) ==
    LET r == runs[d] IN
    /\ r.pc = "complete"
    /\ UNCHANGED <<chunks, files, nTasks, nextDocId, resp>>
    /\ IF ~dbOk \/ d \notin DOMAIN documents
       THEN Raise(d, "database error", TRUE) /\ UNCHANGED documents
       ELSE /\ SetStatus(d, "completed")
            /\ SetRun(d, [r EXCEPT !.pc = "done"])

\* lines 214-230: the except branch writes FAILED on the same session, never
\* rolled back; what it raises itself is logged and dropped
ProcessFailed(d, dbOk) ==
    LET r == runs[d] IN
    /\ r.pc = "handler"
    /\ UNCHANGED <<chunks, files, nTasks, nextDocId, resp>>
    /\ SetRun(d, [r EXCEPT !.pc = "done"])
    /\ IF ~r.broken /\ dbOk /\ d \in DOMAIN documents
       THEN documents' = [documents EXCEPT ![d].status = "failed",
                                           ![d].error_message = r.exc]
       ELSE UNCHANGED documents

(***************************************************************************)
(* Registration and tenant creation (app/api/v1/auth.py register,          *)
(* app/api/v1/tenants.py create_tenant), one action per database           *)
(* statement.  A request's inserts stay in its transaction until it        *)
(* commits: other requests do not see them, and an insert of the same      *)
(* unique key waits for that transaction to end.                           *)
(***************************************************************************)
Digits == <<"0", "1", "2", "3", "4", "5", "6", "7", "8", "9">>

\* str(n) for n >= 0
RECURSIVE IntToStr(_)
IntToStr(n) ==
    IF n < 10 THEN <<Digits[n + 1]>>
    ELSE IntToStr(n \div 10) \o <<Digits[(n % 10) + 1]>>

\* email.split('@')[0]
LocalPart(email) ==
    LET ats == {i \in 1..Len(email) : email[i] = "@"}
    IN IF ats = {} THEN email
       ELSE SubSeq(email, 1, (CHOOSE i \in ats : \A j \in ats : i <= j) - 1)

\* request.tenant_name or f"{request.email.split('@')[0]}'s Workspace"
RegisterTenantName(email, tenant_name) ==
    IF tenant_name # <<>> THEN tenant_name
    ELSE LocalPart(email) \o <<"'", "s", " ", "W", "o", "r", "k", "s", "p", "a", "c", "e">>

\* tenant_name.lower().replace(" ", "-").replace("'", "")
RegisterSlug(tenant_name) == RemoveChar(ReplaceChar(Lower(tenant_name), " ", "-"), "'")

\* request.slug or request.name.lower().replace(" ", "-")
CreateTenantSlug(name, slug) == IF slug # <<>> THEN slug ELSE ReplaceChar(Lower(name), " ", "-")

\* f"{slug_base}-{counter}"
NumberedSlug(slug_base, counter) == slug_base \o <<"-">> \o IntToStr(counter)

\* select(User).where(User.email == email), on the committed rows
UsersByEmail(email) == {u \in DOMAIN users : users[u].email = email}

\* select(Tenant).where(Tenant.slug == slug), on the committed rows
TenantsBySlug(slug) == {t \in DOMAIN tenants : tenants[t].slug = slug}

\* the oldest membership of a user instead of the most recent one
MutDefaultMembershipsOldest(u) ==
    {m \in memberships :
        /\ m.user_id = u
        /\ \A m2 \in memberships : m2.user_id = u => m2.created_at >= m.created_at}

\* the memberships of a user that come first under order_by(created_at.desc())
DefaultMemberships(u) ==
    {m \in memberships :
        /\ m.user_id = u
        /\ \A m2 \in memberships : m2.user_id = u => m2.created_at <= m.created_at}

\* the claims register, login and refresh put in an access token
TokenData(u, email, tenant_id, role) ==
    [sub |-> u, email |-> email, tenant_id |-> tenant_id, role |-> role]

NewRequest(op, email, tenant_name) ==
    [op |-> op, pc |-> "start", email |-> email, tenant_name |-> tenant_name,
     caller |-> 0, user_id |-> 0, tenant_id |-> 0, slug_base |-> <<>>, tenant_slug |-> <<>>,
     counter |-> 1, dup |-> FALSE, code |-> 0, detail |-> "", req_slug |-> <<>>,
     access_token |-> NoCredentials, refresh_token |-> NoCredentials]

\* the request has inserted a users row with its email and has not ended
HoldsEmail(r, email) ==
    /\ reqs[r].op = "register"
    /\ reqs[r].pc \in {"probe", "insert_tenant", "commit"}
    /\ reqs[r].email = email

\* the request has inserted a tenants row with its slug and has not ended
HoldsSlug(r, slug) == reqs[r].pc = "commit" /\ reqs[r].tenant_slug = slug

Answer(r, code, detail) ==
    reqs' = [reqs EXCEPT ![r].pc = "done", ![r].code = code, ![r].detail = detail]

\* register, lines 77-86: the request arrives and looks its email up
register_check(email, tenant_name) ==
    LET req == NewRequest("register", email, tenant_name) IN
    /\ reqs' = Append(reqs,
            IF UsersByEmail(email) # {}
            THEN [req EXCEPT !.pc = "done", !.code = 400, !.dup = TRUE,
                             !.detail = "Email already registered"]
            ELSE [req EXCEPT !.pc = "insert_user"])
    /\ UNCHANGED <<users, tenants, memberships, nextUserId, nextTenantId>>

\* register, lines 88-103: insert the user (flush), derive the slug.  The
\* unique index on users.email rejects a committed duplicate: rollback, 500.
register_insert_user(r) ==
    LET q == reqs[r]
        tenant_name == RegisterTenantName(q.email, q.tenant_name)
    IN
    /\ q.op = "register" /\ q.pc = "insert_user"
    /\ \A r2 \in DOMAIN reqs : r2 # r => ~HoldsEmail(r2, q.email)
    /\ UNCHANGED <<users, tenants, memberships, nextTenantId>>
    /\ nextUserId' = nextUserId + 1
    /\ IF UsersByEmail(q.email) # {}
       THEN reqs' = [reqs EXCEPT ![r].pc = "done", ![r].code = 500, ![r].dup = TRUE,
                                 ![r].detail = "Registration failed"]
       ELSE reqs' = [reqs EXCEPT ![r].pc = "probe", ![r].user_id = nextUserId,
                                 ![r].tenant_name = tenant_name,
                                 ![r].slug_base = RegisterSlug(tenant_name),
                                 ![r].tenant_slug = RegisterSlug(tenant_name),
                                 ![r].counter = 1]

\* register, lines 106-113: one turn of the probing loop
register_probe(r) ==
    LET q == reqs[r] IN
    /\ q.op = "register" /\ q.pc = "probe"
    /\ UNCHANGED <<users, tenants, memberships, nextUserId, nextTenantId>>
    /\ IF TenantsBySlug(q.tenant_slug) = {}
       THEN reqs' = [reqs EXCEPT ![r].pc = "insert_tenant"]
       ELSE reqs' = [reqs EXCEPT ![r].tenant_slug = NumberedSlug(q.slug_base, q.counter),
                                 ![r].counter = q.counter + 1]

\* register, lines 115-120: insert the tenant (flush).  The unique index on
\* tenants.slug rejects a committed duplicate: rollback, 500.
register_insert_tenant(r) ==
    LET q == reqs[r] IN
    /\ q.op = "register" /\ q.pc = "insert_tenant"
    /\ \A r2 \in DOMAIN reqs : r2 # r => ~HoldsSlug(r2, q.tenant_slug)
    /\ UNCHANGED <<users, tenants, memberships, nextUserId>>
    /\ nextTenantId' = nextTenantId + 1
    /\ IF TenantsBySlug(q.tenant_slug) # {}
       THEN Answer(r, 500, "Registration failed")
       ELSE reqs' = [reqs EXCEPT ![r].pc = "commit", ![r].tenant_id = nextTenantId]

\* a register whose user row outlives the failed commit, as if the flush of
\* line 99 had committed it
MutRegisterCommitUserKept(r, dbOk) ==
    LET q == reqs[r] IN
    /\ q.op = "register" /\ q.pc = "commit"
    /\ UNCHANGED <<nextUserId, nextTenantId>>
    /\ users' = Extend(users, q.user_id, [email |-> q.email, is_active |-> TRUE])
    /\ IF ~dbOk
       THEN Answer(r, 500, "Registration failed") /\ UNCHANGED <<tenants, memberships>>
       ELSE /\ tenants' = Extend(tenants, q.tenant_id,
                                 [name |-> q.tenant_name, slug |-> q.tenant_slug])
            /\ memberships' = memberships \cup
                   {[user_id |-> q.user_id, tenant_id |-> q.tenant_id, role |-> "owner",
                     created_at |-> now]}
            /\ reqs' = [reqs EXCEPT
                   ![r].pc = "done", ![r].code = 201,
                   ![r].access_token = create_access_token(
                       TokenData(q.user_id, q.email, q.tenant_id, "owner"), now),
                   ![r].refresh_token = create_refresh_token([sub |-> q.user_id], now)]

\* register, lines 122-151: insert the owner membership, commit, mint the
\* tokens.  dbOk: the commit succeeds (else rollback, 500).
register_commit(r, dbOk) ==
    LET q == reqs[r] IN
    /\ q.op = "register" /\ q.pc = "commit"
    /\ UNCHANGED <<nextUserId, nextTenantId>>
    /\ IF ~dbOk
       THEN Answer(r, 500, "Registration failed") /\ UNCHANGED <<users, tenants, memberships>>
       ELSE /\ users' = Extend(users, q.user_id, [email |-> q.email, is_active |-> TRUE])
            /\ tenants' = Extend(tenants, q.tenant_id,
                                 [name |-> q.tenant_name, slug |-> q.tenant_slug])
            /\ memberships' = memberships \cup
                   {[user_id |-> q.user_id, tenant_id |-> q.tenant_id, role |-> "owner",
                     created_at |-> now]}
            /\ reqs' = [reqs EXCEPT
                   ![r].pc = "done", ![r].code = 201,
                   ![r].access_token = create_access_token(
                       TokenData(q.user_id, q.email, q.tenant_id, "owner"), now),
                   ![r].refresh_token = create_refresh_token([sub |-> q.user_id], now)]

\* create_tenant, lines 67-80: authenticate, derive the slug, look it up
create_tenant_check(cred, name, slug) ==
    LET current == get_current_user(cred, now)
        req == [NewRequest("create_tenant", <<>>, name) EXCEPT !.req_slug = slug]
        base == CreateTenantSlug(name, slug)
    IN
    /\ UNCHANGED <<users, tenants, memberships, nextUserId, nextTenantId>>
    /\ reqs' = Append(reqs,
            IF ~current.ok THEN [req EXCEPT !.pc = "done", !.code = current.code]
            ELSE IF TenantsBySlug(base) = {}
            THEN [req EXCEPT !.pc = "insert_tenant", !.caller = current.user.user_id,
                             !.slug_base = base, !.tenant_slug = base]
            ELSE [req EXCEPT !.pc = "probe", !.caller = current.user.user_id,
                             !.slug_base = base, !.tenant_slug = NumberedSlug(base, 1),
                             !.counter = 1])

\* create_tenant, lines 82-89: one turn of the probing loop
create_tenant_probe(r) ==
    LET q == reqs[r] IN
    /\ q.op = "create_tenant" /\ q.pc = "probe"
    /\ UNCHANGED <<users, tenants, memberships, nextUserId, nextTenantId>>
    /\ IF TenantsBySlug(q.tenant_slug) = {}
       THEN reqs' = [reqs EXCEPT ![r].pc = "insert_tenant"]
       ELSE reqs' = [reqs EXCEPT ![r].counter = q.counter + 1,
                                 ![r].tenant_slug = NumberedSlug(q.slug_base, q.counter + 1)]

\* create_tenant, lines 91-97: insert the tenant (flush)
create_tenant_insert(r) ==
    LET q == reqs[r] IN
    /\ q.op = "create_tenant" /\ q.pc = "insert_tenant"
    /\ \A r2 \in DOMAIN reqs : r2 # r => ~HoldsSlug(r2, q.tenant_slug)
    /\ UNCHANGED <<users, tenants, memberships, nextUserId>>
    /\ nextTenantId' = nextTenantId + 1
    /\ IF TenantsBySlug(q.tenant_slug) # {}
       THEN Answer(r, 500, "Failed to create tenant")
       ELSE reqs' = [reqs EXCEPT ![r].pc = "commit", ![r].tenant_id = nextTenantId]

\* create_tenant, lines 99-119: insert the owner membership, commit.  The
\* membership needs the caller's users row (foreign key).
create_tenant_commit(r, dbOk) ==
    LET q == reqs[r] IN
    /\ q.op = "create_tenant" /\ q.pc = "commit"
    /\ UNCHANGED <<users, nextUserId, nextTenantId>>
    /\ IF ~dbOk \/ q.caller \notin DOMAIN users
       THEN Answer(r, 500, "Failed to create tenant") /\ UNCHANGED <<tenants, memberships>>
       ELSE /\ tenants' = Extend(tenants, q.tenant_id,
                                 [name |-> q.tenant_name, slug |-> q.tenant_slug])
            /\ memberships' = memberships \cup
                   {[user_id |-> q.caller, tenant_id |-> q.tenant_id, role |-> "owner",
                     created_at |-> now]}
            /\ Answer(r, 201, "")

(***************************************************************************)
(* Token use: a role-gated route and the refresh endpoint                  *)
(* (app/core/security.py, app/api/v1/auth.py refresh_token_endpoint)       *)
(***************************************************************************)
BaseAuthResp ==
    [op |-> "none", required |-> "none", cred |-> NoCredentials, by |-> "none", at |-> 0,
     ok |-> FALSE, code |-> 0, detail |-> "", user |-> NoUser, access_token |-> NoCredentials]

NoTok == [cred |-> NoCredentials, by |-> "none", data |-> <<>>]

\* create_access_token(data) is called and the client keeps the token
mint_access_token(data) ==
    /\ tok' = [cred |-> create_access_token(data, now), by |-> "access", data |-> data]
    /\ authResp' = [BaseAuthResp EXCEPT !.op = "mint", !.at = now]

\* create_refresh_token(data) is called and the client keeps the token
mint_refresh_token(data) ==
    /\ tok' = [cred |-> create_refresh_token(data, now), by |-> "refresh", data |-> data]
    /\ authResp' = [BaseAuthResp EXCEPT !.op = "mint", !.at = now]

\* a route behind Depends(require_role(required_role)) is called with the token
protected_route(required_role) ==
    LET auth == require_role(required_role, tok.cred, now) IN
    /\ authResp' = [BaseAuthResp EXCEPT !.op = "gate", !.required = required_role,
                                        !.cred = tok.cred, !.by = tok.by, !.at = now,
                                        !.ok = auth.ok, !.code = auth.code,
                                        !.user = auth.user]
    /\ UNCHANGED tok

\* POST /auth/login, lines 166-248; passwordOk: verify_password returns True.
\* The client keeps the access token of a successful login.
login(email, passwordOk) ==
    LET req == [BaseAuthResp EXCEPT !.op = "login", !.at = now] IN
    IF UsersByEmail(email) = {} \/ ~passwordOk
    THEN /\ authResp' = [req EXCEPT !.code = 401, !.detail = "Invalid email or password"]
         /\ UNCHANGED tok
    ELSE LET user == CHOOSE u \in UsersByEmail(email) : TRUE IN
         IF ~users[user].is_active
         THEN /\ authResp' = [req EXCEPT !.code = 403, !.detail = "Account is disabled"]
              /\ UNCHANGED tok
         ELSE IF DefaultMemberships(user) = {}
         THEN /\ authResp' = [req EXCEPT !.code = 500,
                                         !.detail = "No tenant associated with user"]
              /\ UNCHANGED tok
         ELSE \E m \in DefaultMemberships(user) :
                 LET token_data == TokenData(user, users[user].email, m.tenant_id, m.role)
                 IN /\ authResp' = [req EXCEPT
                           !.ok = TRUE, !.code = 200,
                           !.access_token = create_access_token(token_data, now)]
                    /\ tok' = [cred |-> create_access_token(token_data, now),
                               by |-> "login", data |-> token_data]

\* POST /auth/refresh, lines 251-330, with a token as refresh_token
refresh_request(cred, by) ==
    LET d == decode_token(cred, now)
        req == [BaseAuthResp EXCEPT !.op = "refresh", !.cred = cred, !.by = by,
                                    !.at = now]
        sub == DictGet(d.payload, "sub", 0)
    IN
    /\ UNCHANGED tok
    /\ IF ~d.ok
       THEN authResp' = [req EXCEPT !.code = 401, !.detail = "Could not validate credentials"]
       ELSE IF DictGet(d.payload, "type", "none") # "refresh"
       THEN authResp' = [req EXCEPT !.code = 401, !.detail = "Invalid token type"]
       ELSE IF sub = 0
       THEN authResp' = [req EXCEPT !.code = 401, !.detail = "Invalid token"]
       ELSE IF sub \notin DOMAIN users \/ ~users[sub].is_active
       THEN authResp' = [req EXCEPT !.code = 401, !.detail = "User not found or inactive"]
       ELSE IF DefaultMemberships(sub) = {}
       THEN authResp' = [req EXCEPT !.code = 500,
                                    !.detail = "No tenant associated with user"]
       ELSE \E m \in DefaultMemberships(sub) :
                authResp' = [req EXCEPT
                    !.ok = TRUE, !.code = 200,
                    !.access_token = create_access_token(
                        TokenData(sub, users[sub].email, m.tenant_id, m.role), now)]

\* POST /auth/refresh with the token the client keeps as refresh_token
refresh_token_endpoint == refresh_request(tok.cred, tok.by)

(***************************************************************************)
(* Tenant credentials (app/services/credentials.py), one action per        *)
(* database round trip.  Table tenant_credentials carries the unique       *)
(* constraint (tenant_id, integration_type) of its migration.              *)
(***************************************************************************)
\* A credentials dict is the sequence of its <<key, value>> items, in
\* insertion order; keys and values are strings.  dict.get(k): the value of
\* key k, None when the dict has no such key
None == <<"None">>

Get(d, k) ==
    IF \E i \in DOMAIN d : d[i][1] = k
    THEN d[CHOOSE i \in DOMAIN d : d[i][1] = k][2]
    ELSE None

\* json.dumps of a str: quoted, with the quote and the backslash escaped
RECURSIVE Escape(_)
Escape(s) ==
    IF s = <<>> THEN <<>>
    ELSE (IF Head(s) \in {"\"", "\\"} THEN <<"\\", Head(s)>> ELSE <<Head(s)>>)
         \o Escape(Tail(s))

JsonString(s) == <<"\"">> \o Escape(s) \o <<"\"">>

RECURSIVE JsonItems(_)
JsonItems(d) ==
    IF d = <<>> THEN <<>>
    ELSE JsonString(d[1][1]) \o <<":", " ">> \o JsonString(d[1][2])
         \o (IF Len(d) > 1 THEN <<",", " ">> ELSE <<>>) \o JsonItems(Tail(d))

\* json.dumps(data), encryption.py line 45
json_dumps(d) == <<"{">> \o JsonItems(d) \o <<"}">>

\* json.loads of a str literal whose opening quote is before position i: the
\* characters up to the closing quote, unescaped, and the position after it
RECURSIVE ScanString(_, _, _)
ScanString(text, i, acc) ==
    IF text[i] = "\"" THEN [value |-> acc, next |-> i + 1]
    ELSE IF text[i] = "\\" THEN ScanString(text, i + 2, Append(acc, text[i + 1]))
    ELSE ScanString(text, i + 1, Append(acc, text[i]))

\* the items of an object from position i, the opening quote of a key
RECURSIVE ParseItems(_, _, _)
ParseItems(text, i, acc) ==
    LET k == ScanString(text, i + 1, <<>>)
        \* k.next is the colon, then a space, then the value's opening quote
        v == ScanString(text, k.next + 3, <<>>)
        items == Append(acc, <<k.value, v.value>>)
    IN IF text[v.next] = "," THEN ParseItems(text, v.next + 2, items) ELSE items

\* json.loads(text), encryption.py line 66
json_loads(text) == IF text = <<"{", "}">> THEN <<>> ELSE ParseItems(text, 2, <<>>)

\* CredentialEncryption.__init__: the Fernet key derived from a secret
DeriveKey(secret) ==
    [kdf |-> "PBKDF2-SHA256", salt |-> "tenant_credentials_salt", secret |-> secret]

\* the cipher of the running process
cipher == DeriveKey(JWT_SECRET_KEY)

\* HMAC-SHA256 of a Fernet token's body under a key
Hmac(key, iv, ciphertext) == [key |-> key, iv |-> iv, ciphertext |-> ciphertext]

\* Fernet(key).encrypt: AES-CBC of the plaintext under a fresh iv, then the HMAC
FernetEncrypt(key, iv, plain) ==
    LET ciphertext == [key |-> key, iv |-> iv, plain |-> plain]
    IN [iv |-> iv, ciphertext |-> ciphertext, hmac |-> Hmac(key, iv, ciphertext)]

\* base64.urlsafe_b64encode(...).decode()
B64Encode(bytes) == [b64 |-> bytes]

\* CredentialEncryption.encrypt: json.dumps, Fernet, base64
encrypt(data, iv) == B64Encode(FernetEncrypt(cipher, iv, json_dumps(data)))

\* what decrypt returns, or that it raised ValueError
Decrypted(value) == [ok |-> TRUE, value |-> value]

DecryptError == [ok |-> FALSE, value |-> <<>>]

MutDecryptUnverified(encrypted_data) ==
    IF "b64" \notin DOMAIN encrypted_data THEN DecryptError
    ELSE Decrypted(json_loads(encrypted_data.b64.ciphertext.plain))

\* CredentialEncryption.decrypt: base64, Fernet (the HMAC is verified before
\* anything is decrypted; InvalidToken otherwise), json.loads; any exception
\* becomes ValueError
decrypt(encrypted_data) ==
    IF "b64" \notin DOMAIN encrypted_data THEN DecryptError
    ELSE LET token == encrypted_data.b64 IN
         IF token.hmac # Hmac(cipher, token.iv, token.ciphertext) THEN DecryptError
         ELSE IF token.ciphertext.key # cipher THEN DecryptError
         ELSE Decrypted(json_loads(token.ciphertext.plain))

\* select(TenantCredentials) by tenant_id and integration_type
CredentialRows(tenant_id, integration_type) ==
    {c \in DOMAIN tenant_credentials :
        /\ tenant_credentials[c].tenant_id = tenant_id
        /\ tenant_credentials[c].integration_type = integration_type}

MutUniqueViolationNever(tenant_id, integration_type) == FALSE

\* uq_tenant_credentials_tenant_integration rejects the insert
UniqueViolation(tenant_id, integration_type) ==
    CredentialRows(tenant_id, integration_type) # {}

NewCredOp(op, tenant_id, integration_type, credentials) ==
    [op |-> op, pc |-> "commit", tenant_id |-> tenant_id,
     integration_type |-> integration_type, credentials |-> credentials,
     existing |-> 0, result |-> "none", id |-> 0, exc |-> "none"]

Return(o, result, id, exc) ==
    credOps' = [credOps EXCEPT ![o].pc = "done", ![o].result = result, ![o].id = id,
                               ![o].exc = exc]

\* save_credentials, lines 84-93: the call starts and selects the existing row
save_credentials_select(tenant_id, integration_type, credentials) ==
    LET rows == CredentialRows(tenant_id, integration_type)
        op == NewCredOp("save", tenant_id, integration_type, credentials)
    IN
    /\ UNCHANGED <<tenant_credentials, nextCredId>>
    /\ credOps' = Append(credOps,
            IF rows = {} THEN op
            ELSE IF Cardinality(rows) = 1
            THEN [op EXCEPT !.existing = CHOOSE c \in rows : TRUE]
            \* scalar_one_or_none raises MultipleResultsFound: rollback, ValueError
            ELSE [op EXCEPT !.pc = "done", !.result = "ValueError",
                            !.exc = "MultipleResultsFound"])

\* save_credentials, lines 95-120: encrypt, update the row or insert one,
\* commit; any exception: rollback, ValueError
save_credentials_commit(o, iv, dbOk) ==
    LET q == credOps[o]
        encrypted_data == encrypt(q.credentials, iv)
    IN
    /\ q.op = "save" /\ q.pc = "commit"
    /\ IF q.existing # 0
       THEN /\ UNCHANGED nextCredId
            /\ IF dbOk /\ q.existing \in DOMAIN tenant_credentials
               THEN /\ tenant_credentials' =
                        [tenant_credentials EXCEPT
                            ![q.existing].encrypted_credentials =
                                [encrypted_data |-> encrypted_data],
                            ![q.existing].is_active = "active"]
                    /\ Return(o, "saved", q.existing, "none")
               \* the commit failed, or the row is gone: the UPDATE matches no row
               ELSE /\ Return(o, "ValueError", 0,
                              IF dbOk THEN "StaleDataError" ELSE "database error")
                    /\ UNCHANGED tenant_credentials
       ELSE /\ nextCredId' = nextCredId + 1
            /\ IF dbOk /\ ~UniqueViolation(q.tenant_id, q.integration_type)
               THEN /\ tenant_credentials' = Extend(tenant_credentials, nextCredId,
                        [tenant_id |-> q.tenant_id, integration_type |-> q.integration_type,
                         encrypted_credentials |-> [encrypted_data |-> encrypted_data],
                         is_active |-> "active"])
                    /\ Return(o, "saved", nextCredId, "none")
               ELSE /\ Return(o, "ValueError", 0,
                              IF dbOk THEN "IntegrityError" ELSE "database error")
                    /\ UNCHANGED tenant_credentials

\* delete_credentials, lines 147-159: the call starts and selects the row
delete_credentials_select(tenant_id, integration_type) ==
    LET rows == CredentialRows(tenant_id, integration_type)
        op == NewCredOp("delete", tenant_id, integration_type, <<>>)
    IN
    /\ UNCHANGED <<tenant_credentials, nextCredId>>
    /\ credOps' = Append(credOps,
            IF Cardinality(rows) = 1 THEN [op EXCEPT !.existing = CHOOSE c \in rows : TRUE]
            ELSE [op EXCEPT !.pc = "done", !.result = "False"])

\* delete_credentials, lines 161-174: delete the row, commit; any exception:
\* rollback, False
delete_credentials_commit(o, dbOk) ==
    LET q == credOps[o] IN
    /\ q.op = "delete" /\ q.pc = "commit"
    /\ UNCHANGED nextCredId
    /\ IF dbOk
       THEN /\ tenant_credentials' =
                   [c \in DOMAIN tenant_credentials \ {q.existing} |-> tenant_credentials[c]]
            /\ Return(o, "True", q.existing, "none")
       ELSE Return(o, "False", 0, "database error") /\ UNCHANGED tenant_credentials

\* select(TenantCredentials) by tenant_id, integration_type and is_active
ActiveCredentialRows(tenant_id, integration_type) ==
    {c \in CredentialRows(tenant_id, integration_type) :
        tenant_credentials[c].is_active = "active"}

\* what get_credentials returns: a dict, or None
Found(value) == [present |-> TRUE, value |-> value]

Absent == [present |-> FALSE, value |-> <<>>]

\* CredentialsService.get_credentials: the active row of the pair, decrypted;
\* None when there is no row and when anything raises (the select, more than
\* one row, a row without "encrypted_data", decrypt)
get_credentials(tenant_id, integration_type, dbOk) ==
    LET rows == ActiveCredentialRows(tenant_id, integration_type)
    IN IF ~dbOk \/ Cardinality(rows) # 1 THEN Absent
       ELSE LET cred == tenant_credentials[CHOOSE c \in rows : TRUE] IN
            IF "encrypted_data" \notin DOMAIN cred.encrypted_credentials THEN Absent
            ELSE LET decrypted == decrypt(cred.encrypted_credentials.encrypted_data)
                 IN IF decrypted.ok THEN Found(decrypted.value) ELSE Absent

(***************************************************************************)
(* Agent routes (app/api/v1/agent.py): each resolves its configuration     *)
(* from the tenant's credentials or the process-wide settings, then calls  *)
(* the external client.                                                    *)
(***************************************************************************)
\* Python truthiness of a dict, a str or None
Truthy(v) == v # <<>> /\ v # None

\* all([...])
All(values) == \A i \in DOMAIN values : Truthy(values[i])

JIRA_URL == <<"jira_url">>

JIRA_EMAIL == <<"jira_email">>

JIRA_API_TOKEN == <<"jira_api_token">>

SMTP_HOST == <<"smtp_host">>

SMTP_USER == <<"smtp_user">>

SMTP_PASSWORD == <<"smtp_password">>

\* the stored value of the pair at the time of the call (kept with the answer)
StoredCredentials(tenant_id, integration_type) ==
    {tenant_credentials[c].encrypted_credentials :
        c \in CredentialRows(tenant_id, integration_type)}

NoAgentCall ==
    [route |-> "none", cred |-> NoCredentials, tenant_id |-> 0,
     integration_type |-> "none", stored |-> {}, dbOk |-> TRUE, tenant_creds |-> Absent,
     source |-> "none", config |-> <<>>, code |-> 0, status |-> "none",
     detail |-> "none"]

AgentCall(route, cred, tenant_id, integration_type, dbOk) ==
    [NoAgentCall EXCEPT
        !.route = route, !.cred = cred, !.tenant_id = tenant_id,
        !.integration_type = integration_type, !.dbOk = dbOk,
        !.stored = StoredCredentials(tenant_id, integration_type)]

\* agent.py lines 239-248 and 323-332: the tenant's values if get_credentials
\* returned a truthy dict, the process-wide settings otherwise
JiraConfig(tenant_creds) ==
    IF tenant_creds.present /\ Truthy(tenant_creds.value)
    THEN [source |-> "tenant",
          values |-> <<Get(tenant_creds.value, JIRA_URL),
                       Get(tenant_creds.value, JIRA_EMAIL),
                       Get(tenant_creds.value, JIRA_API_TOKEN)>>]
    ELSE [source |-> "settings",
          values |-> <<settings.JIRA_URL, settings.JIRA_EMAIL, settings.JIRA_API_TOKEN>>]

\* agent.py lines 157-170; the port and use_tls take no part in the check
SmtpConfig(tenant_creds) ==
    IF tenant_creds.present /\ Truthy(tenant_creds.value)
    THEN [source |-> "tenant",
          values |-> <<Get(tenant_creds.value, SMTP_HOST),
                       Get(tenant_creds.value, SMTP_USER),
                       Get(tenant_creds.value, SMTP_PASSWORD)>>]
    ELSE [source |-> "settings",
          values |-> <<settings.SMTP_HOST, settings.SMTP_USER, settings.SMTP_PASSWORD>>]

\* the answer of a call whose gate passed and whose configuration is resolved
Resolved(call, tenant_creds, config) ==
    [call EXCEPT !.tenant_creds = tenant_creds, !.source = config.source,
                 !.config = config.values]

\* POST /agent/jira-ticket; clientOk: JiraClient.create_ticket returned
create_jira_ticket(cred, dbOk, clientOk) ==
    LET gate == require_tenant_access(cred, now)
        call == AgentCall("jira-ticket", cred, gate.user.tenant_id, "jira", dbOk)
        tenant_creds == get_credentials(gate.user.tenant_id, "jira", dbOk)
        config == JiraConfig(tenant_creds)
        resolved == Resolved(call, tenant_creds, config)
    IN agentResp' =
        IF ~gate.ok THEN [call EXCEPT !.code = gate.code]
        ELSE IF ~All(config.values)
        THEN [resolved EXCEPT !.code = 400,
                              !.detail = "Jira credentials not configured"]
        ELSE IF ~clientOk
        THEN [resolved EXCEPT !.code = 500, !.detail = "Failed to create Jira ticket"]
        ELSE [resolved EXCEPT !.code = 200, !.status = "created"]

\* GET /agent/jira-test; outcome: what JiraClient.test_connection did
test_jira_connection(cred, dbOk, outcome) ==
    LET gate == require_tenant_access(cred, now)
        call == AgentCall("jira-test", cred, gate.user.tenant_id, "jira", dbOk)
        tenant_creds == get_credentials(gate.user.tenant_id, "jira", dbOk)
        config == JiraConfig(tenant_creds)
        resolved == Resolved(call, tenant_creds, config)
    IN agentResp' =
        IF ~gate.ok THEN [call EXCEPT !.code = gate.code]
        ELSE IF ~All(config.values)
        THEN [resolved EXCEPT !.code = 200, !.status = "not_configured",
                              !.detail = "Jira credentials not configured"]
        ELSE [resolved EXCEPT !.code = 200, !.status = outcome]

\* POST /agent/send-email; clientOk: EmailClient.send_email returned
send_email(cred, dbOk, clientOk) ==
    LET gate == require_tenant_access(cred, now)
        call == AgentCall("send-email", cred, gate.user.tenant_id, "email", dbOk)
        tenant_creds == get_credentials(gate.user.tenant_id, "email", dbOk)
        config == SmtpConfig(tenant_creds)
        resolved == Resolved(call, tenant_creds, config)
    IN agentResp' =
        IF ~gate.ok THEN [call EXCEPT !.code = gate.code]
        ELSE IF ~All(config.values)
        THEN [resolved EXCEPT !.code = 400,
                              !.detail = "SMTP credentials not configured"]
        ELSE IF ~clientOk
        THEN [resolved EXCEPT !.code = 500, !.detail = "Failed to send email"]
        ELSE [resolved EXCEPT !.code = 200, !.status = "sent"]

\* what a stored ciphertext may have become outside the service: bytes that
\* are not a base64 Fernet token, a token whose ciphertext was altered, a token
\* made under the key of another secret
Corruptions(encrypted_data, other) ==
    {[raw |-> "bytes"],
     B64Encode([encrypted_data.b64 EXCEPT !.ciphertext.plain = json_dumps(other)]),
     B64Encode(FernetEncrypt(DeriveKey("rotated"), 1, json_dumps(other)))}

(***************************************************************************)
(* Answer engine (app/services/answer_engine.py).  A query is a sequence   *)
(* of characters; lower(), strip(), split(), the patterns and the          *)
(* substring tests are computed on it.                                     *)
(***************************************************************************)
Whitespace == {" ", "\n"}

\* str.strip()
RECURSIVE LStrip(_)
LStrip(s) == IF s # <<>> /\ Head(s) \in Whitespace THEN LStrip(Tail(s)) ELSE s

RECURSIVE RStrip(_)
RStrip(s) ==
    IF s # <<>> /\ s[Len(s)] \in Whitespace THEN RStrip(SubSeq(s, 1, Len(s) - 1)) ELSE s

Strip(s) == RStrip(LStrip(s))

\* len(s.split()): the number of maximal runs of non-whitespace characters
WordCount(s) ==
    Cardinality({i \in DOMAIN s :
        s[i] \notin Whitespace /\ (i = 1 \/ s[i - 1] \in Whitespace)})

\* sub in s
Contains(s, sub) ==
    \E i \in 0..(Len(s) - Len(sub)) : SubSeq(s, i + 1, i + Len(sub)) = sub

\* re.match(r'^(a|b|...)[tail]*$', s): one of the alternatives, then only
\* characters of the tail class
Matches(s, alternatives, tail) ==
    \E a \in alternatives :
        /\ Len(a) <= Len(s)
        /\ SubSeq(s, 1, Len(a)) = a
        /\ \A i \in (Len(a) + 1)..Len(s) : s[i] \in tail

\* lines 130-136: the alternatives of the four patterns
GreetingPattern ==
    {<<"h", "i">>, <<"h", "e", "l", "l", "o">>, <<"h", "e", "y">>,
     <<"g", "r", "e", "e", "t", "i", "n", "g", "s">>,
     <<"g", "o", "o", "d", " ", "m", "o", "r", "n", "i", "n", "g">>,
     <<"g", "o", "o", "d", " ", "a", "f", "t", "e", "r", "n", "o", "o", "n">>,
     <<"g", "o", "o", "d", " ", "e", "v", "e", "n", "i", "n", "g">>,
     <<"h", "o", "w", "d", "y">>}

SmallTalkPattern ==
    {<<"h", "o", "w", " ", "a", "r", "e", " ", "y", "o", "u">>,
     <<"w", "h", "a", "t", "s", " ", "u", "p">>,
     <<"w", "h", "a", "t", "'", "s", " ", "u", "p">>,
     <<"h", "o", "w", "s", " ", "i", "t", " ", "g", "o", "i", "n", "g">>,
     <<"h", "o", "w", "'", "s", " ", "i", "t", " ", "g", "o", "i", "n", "g">>,
     <<"h", "o", "w", " ", "d", "o", " ", "y", "o", "u", " ", "d", "o">>}

ThanksPattern ==
    {<<"t", "h", "a", "n", "k", "s">>,
     <<"t", "h", "a", "n", "k", " ", "y", "o", "u">>, <<"t", "h", "x">>,
     <<"a", "p", "p", "r", "e", "c", "i", "a", "t", "e", " ", "i", "t">>}

GenericPattern ==
    {
     <<"w", "h", "a", "t", " ", "c", "a", "n", " ", "y", "o", "u", " ", "d", "o">>,
     <<"w", "h", "o", " ", "a", "r", "e", " ", "y", "o", "u">>,
     <<"w", "h", "a", "t", " ", "a", "r", "e", " ", "y", "o", "u">>,
     <<"h", "e", "l", "p">>, <<"h", "e", "l", "p", " ", "m", "e">>}

\* line 146: ['?', 'what', 'who', 'when', 'where', 'why', 'how', 'which']
QuestionMarkers ==
    {<<"?">>, <<"w", "h", "a", "t">>, <<"w", "h", "o">>,
     <<"w", "h", "e", "n">>, <<"w", "h", "e", "r", "e">>, <<"w", "h", "y">>,
     <<"h", "o", "w">>, <<"w", "h", "i", "c", "h">>}

\* AnswerEngineService._is_conversational_query
_is_conversational_query(query) ==
    LET query_lower == Strip(Lower(query)) IN
    \/ Matches(query_lower, GreetingPattern, Whitespace \cup {"!", ".", ","})
    \/ Matches(query_lower, SmallTalkPattern, Whitespace \cup {"?"})
    \/ Matches(query_lower, ThanksPattern, Whitespace \cup {"!", ".", ","})
    \/ Matches(query_lower, GenericPattern, Whitespace \cup {"?"})
    \/ /\ WordCount(query_lower) <= 2
       /\ ~\E q \in QuestionMarkers : Contains(query_lower, q)

\* lines 265-273: the words that select a canned reply
GreetingWords ==
    {<<"h", "i">>, <<"h", "e", "l", "l", "o">>, <<"h", "e", "y">>,
     <<"g", "r", "e", "e", "t", "i", "n", "g", "s">>,
     <<"h", "o", "w", "d", "y">>}

ThanksWords ==
    {<<"t", "h", "a", "n", "k", "s">>,
     <<"t", "h", "a", "n", "k", " ", "y", "o", "u">>, <<"t", "h", "x">>,
     <<"a", "p", "p", "r", "e", "c", "i", "a", "t", "e">>}

HelpWords ==
    {<<"h", "e", "l", "p">>,
     <<"w", "h", "a", "t", " ", "c", "a", "n", " ", "y", "o", "u", " ", "d", "o">>,
     <<"w", "h", "o", " ", "a", "r", "e", " ", "y", "o", "u">>,
     <<"w", "h", "a", "t", " ", "a", "r", "e", " ", "y", "o", "u">>}

\* AnswerEngineService._generate_conversational_response: one of four replies
_generate_conversational_response(query) ==
    LET query_lower == Strip(Lower(query)) IN
    IF \E w \in GreetingWords : Contains(query_lower, w) THEN "Hello! I'm here to help"
    ELSE IF \E w \in ThanksWords : Contains(query_lower, w) THEN "You're welcome!"
    ELSE IF \E w \in HelpWords : Contains(query_lower, w) THEN "I'm an AI assistant"
    ELSE "I'm here to help"

ConversationalReplies ==
    {"Hello! I'm here to help", "You're welcome!", "I'm an AI assistant",
     "I'm here to help"}

\* a retrieved chunk: its ranking score in hundredths, or no "score" key
Scored(score) == [has_score |-> TRUE, score |-> score]

Unscored == [has_score |-> FALSE, score |-> 0]

\* chunk.get("score", 0)
ChunkScore(chunk) == IF chunk.has_score THEN chunk.score ELSE 0

RECURSIVE SumScores(_)
SumScores(scores) ==
    IF scores = <<>> THEN 0 ELSE Head(scores) + SumScores(Tail(scores))

\* chunks[:n]
FirstChunks(retrieved_chunks, n) ==
    SubSeq(retrieved_chunks, 1,
           IF Len(retrieved_chunks) < n THEN Len(retrieved_chunks) ELSE n)

\* the relevance test on the mean of all chunks instead of the first three
MutChunksAreRelevantAll(retrieved_chunks, min_score) ==
    IF retrieved_chunks = <<>> THEN FALSE
    ELSE LET scores == [i \in 1..Len(retrieved_chunks) |->
                           ChunkScore(retrieved_chunks[i])]
         IN SumScores(scores) >= min_score * Len(scores)

\* AnswerEngineService._chunks_are_relevant; sum / len >= min_score is
\* computed as sum >= min_score * len, the scores being hundredths
_chunks_are_relevant(retrieved_chunks, min_score) ==
    IF retrieved_chunks = <<>> THEN FALSE
    ELSE LET top == FirstChunks(retrieved_chunks, TopChunks)
             top_scores == [i \in 1..Len(top) |-> ChunkScore(top[i])]
         IN SumScores(top_scores) >= min_score * Len(top_scores)

\* the fixed reply of each function when the chunks are not relevant
NotFoundReply(fn) ==
    IF fn = "generate_answer"
    THEN "I couldn't find any relevant information ... rephrasing your query."
    ELSE "I couldn't find any relevant information ... to answer this question."

\* no call of the answer engine has been made
NoAnswerCall ==
    [fn |-> "none", query |-> <<>>, chunks |-> <<>>, llmOk |-> TRUE,
     llm_calls |-> 0, raised |-> FALSE, reply |-> "", yielded |-> "none"]

\* how generate_answer_stream yields a reply: "chars" is one item for each
\* character (for char in response: yield char), "whole" the string as one
\* item, "tokens" the chunks of llm.astream; generate_answer yields nothing
Yielded(fn, how) == IF fn = "generate_answer" THEN "none" ELSE how

\* lines 200-250 and 318-375: both functions take the same decisions; reply is
\* the returned string, for the stream the concatenation of what it yields
GenerateAnswer(fn, query, retrieved_chunks, llmOk) ==
    LET call == [NoAnswerCall EXCEPT !.fn = fn, !.query = query,
                                     !.chunks = retrieved_chunks,
                                     !.llmOk = llmOk]
    IN IF _is_conversational_query(query)
       THEN [call EXCEPT !.reply = _generate_conversational_response(query),
                         !.yielded = Yielded(fn, "chars")]
       ELSE IF \/ retrieved_chunks = <<>>
               \/ ~_chunks_are_relevant(retrieved_chunks, MinScore)
       THEN IF _is_conversational_query(query) \/ WordCount(Strip(query)) <= 3
            THEN [call EXCEPT !.reply = _generate_conversational_response(query),
                              !.yielded = Yielded(fn, "chars")]
            ELSE [call EXCEPT !.reply = NotFoundReply(fn),
                              !.yielded = Yielded(fn, "whole")]
       ELSE IF llmOk
       THEN [call EXCEPT !.llm_calls = 1, !.reply = "llm",
                         !.yielded = Yielded(fn, "tokens")]
       ELSE [call EXCEPT !.llm_calls = 1, !.raised = TRUE]

\* AnswerEngineService.generate_answer; llmOk: llm.ainvoke returned
generate_answer(query, retrieved_chunks, llmOk) ==
    GenerateAnswer("generate_answer", query, retrieved_chunks, llmOk)

\* AnswerEngineService.generate_answer_stream; llmOk: llm.astream ran to its end
generate_answer_stream(query, retrieved_chunks, llmOk) ==
    GenerateAnswer("generate_answer_stream", query, retrieved_chunks, llmOk)

(***************************************************************************)
(* The RAG routes (app/api/v1/rag.py): POST /rag/query and the generator   *)
(* behind POST /rag/query-stream, one step per await or yield.             *)
(***************************************************************************)
\* the frames of the stream, as the JSON objects written after "data: "
TokenFrame(content) == [type |-> "token", content |-> content, sources |-> 0]

SourcesFrame(sources) == [type |-> "sources", content |-> "", sources |-> sources]

ErrorFrame == [type |-> "error", content |-> "An error occurred", sources |-> 0]

DoneFrame == [type |-> "[DONE]", content |-> "", sources |-> 0]

\* the fixed answers of the two routes when retrieval returns nothing
NoInformationAnswer == "I couldn't find any relevant information in your documents to answer"

NoInformationToken == "I couldn't find any relevant information in your documents."

\* no RAG request has been made
NoRagCall ==
    [route |-> "none", cred |-> NoCredentials, query |-> <<>>, pc |-> "closed",
     code |-> 0, retrievals |-> 0, llm_calls |-> 0, chunks |-> 0,
     responses |-> 0, raised |-> FALSE, answer |-> "", sources |-> 0,
     frames |-> <<>>]

RagCall(route, cred, query) ==
    [NoRagCall EXCEPT !.route = route, !.cred = cred, !.query = query]

\* chunks[:5]
TopSources(n) == IF n > SourcesShown THEN SourcesShown ELSE n

\* query_documents; retrieved: the number of chunks of retriever_service.retrieve
\* (top_k=10), -1 when it raised; llmOk: llm.ainvoke returned
query_documents(cred, query, retrieved, llmOk) ==
    LET gate == require_tenant_access(cred, now)
        call == RagCall("query", cred, query)
        tried == [call EXCEPT !.retrievals = 1]
    IN IF ~gate.ok THEN [call EXCEPT !.code = gate.code]
       ELSE IF retrieved < 0 THEN [tried EXCEPT !.code = 500, !.raised = TRUE]
       ELSE IF retrieved = 0
       THEN [tried EXCEPT !.code = 200, !.answer = NoInformationAnswer]
       ELSE IF ~llmOk
       THEN [tried EXCEPT !.code = 500, !.raised = TRUE, !.chunks = retrieved,
                          !.llm_calls = 1]
       ELSE [tried EXCEPT !.code = 200, !.chunks = retrieved, !.llm_calls = 1,
                          !.answer = "llm", !.sources = TopSources(retrieved)]

\* query_documents_stream: the dependencies, then StreamingResponse(generate())
query_documents_stream(cred, query) ==
    LET gate == require_tenant_access(cred, now)
        call == RagCall("query-stream", cred, query)
    IN IF ~gate.ok THEN [call EXCEPT !.code = gate.code]
       ELSE [call EXCEPT !.code = 200, !.pc = "retrieve"]

\* generate, lines 171-184: the retrieval and the branch on `not chunks`
generate_retrieve(r, retrieved) ==
    LET tried == [r EXCEPT !.retrievals = @ + 1]
    IN IF retrieved < 0 THEN [tried EXCEPT !.raised = TRUE, !.pc = "except"]
       ELSE IF retrieved = 0
       THEN [tried EXCEPT !.frames = Append(@, TokenFrame(NoInformationToken)),
                          !.pc = "return"]
       ELSE [tried EXCEPT !.chunks = retrieved, !.llm_calls = @ + 1,
                          !.pc = "astream"]

\* lines 220-229: one chunk_response of llm.astream, or its end, or its failure
generate_token(r, outcome) ==
    CASE outcome = "content" ->
           [r EXCEPT !.responses = @ + 1, !.frames = Append(@, TokenFrame("llm"))]
      [] outcome = "empty" -> [r EXCEPT !.responses = @ + 1]
      [] outcome = "end" -> [r EXCEPT !.pc = "sources"]
      [] outcome = "raise" -> [r EXCEPT !.raised = TRUE, !.pc = "except"]

\* lines 231-245: the sources frame; ok: json.dumps took the chunks' metadata
generate_sources(r, ok) ==
    IF ok
    THEN [r EXCEPT !.sources = TopSources(r.chunks),
                   !.frames = Append(@, SourcesFrame(TopSources(r.chunks))),
                   !.pc = "done"]
    ELSE [r EXCEPT !.raised = TRUE, !.pc = "except"]

\* the except branch without its terminator
MutGenerateExceptNoDone(r) ==
    [r EXCEPT !.frames = Append(@, ErrorFrame), !.pc = "closed"]

\* lines 256-263: the except branch up to its first yield
generate_except(r) ==
    [r EXCEPT !.frames = Append(@, ErrorFrame), !.pc = "done"]

\* lines 183-184, 248 and 264: yield "data: [DONE]\n\n", then the generator ends
generate_done(r) ==
    [r EXCEPT !.frames = Append(@, DoneFrame), !.pc = "closed"]

(***************************************************************************)
(* The local storage backend (app/services/storage.py).  A key is a        *)
(* sequence of characters, a path a sequence of names below the root of    *)
(* the file system; the disk is the set of directories and the files with  *)
(* their bytes.                                                            *)
(***************************************************************************)
\* str.split(sep): the pieces of s between the separators
RECURSIVE SplitOn(_, _, _)
SplitOn(s, sep, piece) ==
    IF s = <<>> THEN <<piece>>
    ELSE IF Head(s) = sep THEN <<piece>> \o SplitOn(Tail(s), sep, <<>>)
    ELSE SplitOn(Tail(s), sep, Append(piece, Head(s)))

IsName(part) == part # <<>> /\ part # <<".">>

\* the parts pathlib keeps of a path string: no empty part, no "."
PathParts(s) == SelectSeq(SplitOn(s, "/", <<>>), IsName)

\* pathlib: root / key; an absolute key replaces the root
PathJoin(root, key) ==
    IF key # <<>> /\ Head(key) = "/" THEN PathParts(key) ELSE root \o PathParts(key)

\* Path.parent: the path without its last part
Parent(path) == IF path = <<>> THEN <<>> ELSE SubSeq(path, 1, Len(path) - 1)

DotDot == <<".", ".">>

\* settings.LOCAL_STORAGE_PATH, made absolute
LOCAL_STORAGE_PATH == <<<<"s", "t", "o", "r", "a", "g", "e">>>>

\* the disk after StorageService.__init__: the root directory exists
EmptyDisk == [dirs |-> {<<>>, LOCAL_STORAGE_PATH}, files |-> <<>>]

\* the file or directory the operating system finds for a path: ".." is
\* followed from the directory reached, which has to exist
RECURSIVE Walk(_, _, _)
Walk(parts, cur, d) ==
    IF parts = <<>> THEN [ok |-> TRUE, path |-> cur]
    ELSE IF cur \notin d.dirs THEN [ok |-> FALSE, path |-> cur]
    ELSE IF Head(parts) = DotDot THEN Walk(Tail(parts), Parent(cur), d)
    ELSE Walk(Tail(parts), Append(cur, Head(parts)), d)

\* Path.mkdir(parents=True, exist_ok=True): every directory on the way is
\* made; a file on the way raises
RECURSIVE MakeDirs(_, _, _)
MakeDirs(parts, cur, d) ==
    IF parts = <<>> THEN [ok |-> TRUE, disk |-> d]
    ELSE LET next == IF Head(parts) = DotDot THEN Parent(cur)
                     ELSE Append(cur, Head(parts))
         IN IF next \in DOMAIN d.files THEN [ok |-> FALSE, disk |-> d]
            ELSE MakeDirs(Tail(parts), next, [d EXCEPT !.dirs = @ \cup {next}])

\* StorageService.get_file_path for the local backend
get_file_path(storage_key) == PathJoin(LOCAL_STORAGE_PATH, storage_key)

\* what open(path, "rb").read() gives
ReadPath(path, d) ==
    LET found == Walk(path, <<>>, d)
    IN IF found.ok /\ found.path \in DOMAIN d.files
       THEN [present |-> TRUE, bytes |-> d.files[found.path]]
       ELSE [present |-> FALSE, bytes |-> 0]

\* the bytes stored under a key
StoredUnder(storage_key, d) == ReadPath(get_file_path(storage_key), d)

\* Path.exists()
PathExists(path, d) ==
    LET found == Walk(path, <<>>, d)
    IN found.ok /\ (found.path \in d.dirs \/ found.path \in DOMAIN d.files)

\* StorageService.file_exists for the local backend
file_exists(storage_key, d) == PathExists(get_file_path(storage_key), d)

\* no storage call has been made
NoStorageCall ==
    [op |-> "none", storage_key |-> <<>>, bytes |-> 0, raised |-> FALSE,
     result |-> FALSE, existed |-> FALSE]

\* StorageService._save_local: mkdir of the parent, then open(path, "wb")
_save_local(bytes, storage_key, d) ==
    LET file_path == get_file_path(storage_key)
        made == MakeDirs(Parent(file_path), <<>>, d)
        found == Walk(file_path, <<>>, made.disk)
        call == [NoStorageCall EXCEPT !.op = "save_file", !.storage_key = storage_key,
                                      !.bytes = bytes,
                                      !.existed = file_exists(storage_key, d)]
    IN IF ~made.ok \/ ~found.ok \/ found.path \in made.disk.dirs
       THEN [disk |-> made.disk, call |-> [call EXCEPT !.raised = TRUE]]
       ELSE [disk |-> [made.disk EXCEPT !.files = Extend(@, found.path, bytes)],
             call |-> [call EXCEPT !.result = TRUE]]

\* StorageService.save_file for the local backend
save_file(bytes, storage_key, d) == _save_local(bytes, storage_key, d)

\* StorageService.delete_file for the local backend: unlink of a directory
\* raises, which is caught and answered False
delete_file(storage_key, d) ==
    LET file_path == get_file_path(storage_key)
        found == Walk(file_path, <<>>, d)
        call == [NoStorageCall EXCEPT !.op = "delete_file",
                                      !.storage_key = storage_key,
                                      !.existed = file_exists(storage_key, d)]
    IN IF PathExists(file_path, d) /\ found.path \in DOMAIN d.files
       THEN [disk |-> [d EXCEPT !.files = Remove(@, found.path)],
             call |-> [call EXCEPT !.result = TRUE]]
       ELSE [disk |-> d, call |-> call]

(***************************************************************************)
(* The retrieval pipeline (RetrieverService.retrieve).  Scores are in      *)
(* thousandths, alpha in tenths; a result list is a sequence of records    *)
(* with the chunk's id and scores (-1: the key is not set).                *)
(***************************************************************************)
\* one result of _vector_search, _bm25_search or a later stage
Result(id, score, vector_score, bm25_score) ==
    [id |-> id, score |-> score, vector_score |-> vector_score,
     bm25_score |-> bm25_score, rerank_score |-> -1]

\* list.sort(key=lambda x: x[field], reverse=True): stable, descending
RECURSIVE SortDesc(_, _)
SortDesc(results, field) ==
    IF results = <<>> THEN <<>>
    ELSE LET rest == SortDesc(Tail(results), field)
             x == Head(results)
             \* x goes before every result that is not greater than it
             before == SelectSeq(rest, LAMBDA r : r[field] > x[field])
             after == SelectSeq(rest, LAMBDA r : r[field] <= x[field])
         IN before \o <<x>> \o after

\* results[:n]
FirstOf(results, n) ==
    SubSeq(results, 1, IF Len(results) < n THEN Len(results) ELSE n)

ResultIds(results) == {results[i].id : i \in 1..Len(results)}

\* {r["id"]: r["score"] for r in results}.get(id, 0)
ScoreOf(results, id) ==
    IF id \in ResultIds(results)
    THEN (CHOOSE r \in {results[i] : i \in 1..Len(results)} : r.id = id).score
    ELSE 0

\* the set all_ids as the loop over it visits it, smallest id first
RECURSIVE InOrder(_)
InOrder(ids) ==
    IF ids = {} THEN <<>>
    ELSE LET least == CHOOSE x \in ids : \A y \in ids : x <= y
         IN <<least>> \o InOrder(ids \ {least})

\* the merge with the BM25 side left out of the score
MutHybridMergeVectorOnly(vector_results, bm25_results, alpha) ==
    LET all_ids == InOrder(ResultIds(vector_results) \cup ResultIds(bm25_results))
        hybrid_results ==
            [i \in 1..Len(all_ids) |->
                Result(all_ids[i], (alpha * ScoreOf(vector_results, all_ids[i])) \div 10,
                       ScoreOf(vector_results, all_ids[i]),
                       ScoreOf(bm25_results, all_ids[i]))]
    IN SortDesc(hybrid_results, "score")

\* RetrieverService._hybrid_merge
_hybrid_merge(vector_results, bm25_results, alpha) ==
    LET all_ids == InOrder(ResultIds(vector_results) \cup ResultIds(bm25_results))
        hybrid_results ==
            [i \in 1..Len(all_ids) |->
                LET v_score == ScoreOf(vector_results, all_ids[i])
                    b_score == ScoreOf(bm25_results, all_ids[i])
                IN Result(all_ids[i], (alpha * v_score + (10 - alpha) * b_score) \div 10,
                          v_score, b_score)]
    IN SortDesc(hybrid_results, "score")

\* no call of _hybrid_merge has been made
NoMerge ==
    [called |-> FALSE, vector_results |-> <<>>, bm25_results |-> <<>>,
     hybrid_results |-> <<>>]

\* lines 364-368: the merged results go into all_chunks, a dict in insertion
\* order that keeps the best score of a chunk
RECURSIVE KeepBest(_, _)
KeepBest(all_chunks, merged) ==
    IF merged = <<>> THEN all_chunks
    ELSE LET chunk == Head(merged)
             at == {i \in 1..Len(all_chunks) : all_chunks[i].id = chunk.id}
             next == IF at = {} THEN Append(all_chunks, chunk)
                     ELSE LET i == CHOOSE i \in at : TRUE
                          IN IF chunk.score > all_chunks[i].score
                             THEN [all_chunks EXCEPT ![i] = chunk]
                             ELSE all_chunks
         IN KeepBest(next, Tail(merged))

\* the re-ranking that only keeps the first top_k, in the order it was given
MutRerankUnsorted(candidates, top_k, reranker, scores) ==
    IF ~reranker \/ candidates = <<>> \/ scores = <<>>
    THEN FirstOf(candidates, top_k)
    ELSE FirstOf([i \in 1..Len(candidates) |->
                     [candidates[i] EXCEPT !.rerank_score = scores[candidates[i].id]]],
                 top_k)

\* RetrieverService._rerank; scores: what reranker.predict returns for each
\* chunk id, <<>> when it raises
_rerank(candidates, top_k, reranker, scores) ==
    IF ~reranker \/ candidates = <<>> \/ scores = <<>>
    THEN FirstOf(candidates, top_k)
    ELSE LET scored == [i \in 1..Len(candidates) |->
                          [candidates[i] EXCEPT !.rerank_score = scores[candidates[i].id]]]
         IN FirstOf(SortDesc(scored, "rerank_score"), top_k)

\* no retrieval is under way
NoRetrieval ==
    [pc |-> "done", top_k |-> 0, use_hybrid |-> FALSE, use_reranking |-> FALSE,
     use_query_expansion |-> FALSE, reranker |-> FALSE, queries |-> 0, q |-> 0,
     all_chunks |-> <<>>, observed |-> {}, reranked |-> FALSE, raised |-> FALSE,
     final_results |-> <<>>]

\* retrieve, lines 331-336: the query variations (three with the expansion)
retrieve_start(top_k, use_hybrid, use_reranking, use_query_expansion, reranker) ==
    [NoRetrieval EXCEPT !.pc = "search", !.top_k = top_k, !.use_hybrid = use_hybrid,
                        !.use_reranking = use_reranking,
                        !.use_query_expansion = use_query_expansion,
                        !.reranker = reranker,
                        !.queries = IF use_query_expansion THEN QueryVariations ELSE 1]

\* lines 341-368: one query variation; searchOk: embed_query and
\* _vector_search returned
retrieve_search(r, vector_results, bm25_results, searchOk) ==
    IF ~searchOk THEN [r EXCEPT !.pc = "done", !.raised = TRUE]
    ELSE LET merged == IF r.use_hybrid
                       THEN _hybrid_merge(vector_results, bm25_results, HYBRID_ALPHA)
                       ELSE vector_results
         IN [r EXCEPT !.q = @ + 1,
                      !.all_chunks = KeepBest(@, merged),
                      !.observed = @ \cup {<<merged[i].id, merged[i].score>> :
                                              i \in 1..Len(merged)},
                      !.pc = IF r.q + 1 = r.queries THEN "rank" ELSE "search"]

\* lines 370-383: sort, threshold, re-ranking or the first top_k
retrieve_rank(r, scores) ==
    LET sorted == SortDesc(r.all_chunks, "score")
        candidates == SelectSeq(sorted, LAMBDA c : c.score >= MIN_SIMILARITY_THRESHOLD)
    IN IF r.use_reranking /\ r.reranker
       THEN [r EXCEPT !.pc = "done",
                      !.reranked = candidates # <<>> /\ scores # <<>>,
                      !.final_results = _rerank(FirstOf(candidates, RERANK_TOP_K),
                                                r.top_k, r.reranker, scores)]
       ELSE [r EXCEPT !.pc = "done", !.final_results = FirstOf(candidates, r.top_k)]

(***************************************************************************)
(* The Alembic migrations (alembic/versions)                               *)
(***************************************************************************)
\* revision and down_revision of the six scripts; "None" is Python's None
Revisions ==
    {[revision |-> "001_initial", down_revision |-> "None"],
     [revision |-> "002_gemini_emb", down_revision |-> "001_initial"],
     [revision |-> "003_local_emb", down_revision |-> "002_gemini_emb"],
     [revision |-> "004_768_emb", down_revision |-> "003_local_emb"],
     [revision |-> "005_doc_indexes", down_revision |-> "004_768_emb"],
     [revision |-> "20241206_tenant_credentials", down_revision |-> "005_doc_indexes"]}

\* Alembic's heads: the revisions no script revises
Heads == {r.revision : r \in {x \in Revisions :
                                 \A y \in Revisions : y.down_revision # x.revision}}

\* the scripts that revise a revision
Children(version) == {r.revision : r \in {x \in Revisions : x.down_revision = version}}

DownRevision(version) == (CHOOSE r \in Revisions : r.revision = version).down_revision

\* one statement of a script: op.create_table, op.create_index, op.execute ...
\* on: the table of an index or a constraint, the enum type a table creates;
\* n: the dimension or ef_construction
Op(op, name, on, n) == [op |-> op, name |-> name, on |-> on, n |-> n]

HnswIndex == "ix_chunks_embedding_hnsw"

DropHnsw == Op("drop_index_if_exists", HnswIndex, "", 0)

CreateHnsw(ef_construction) == Op("create_hnsw", HnswIndex, "chunks", ef_construction)

TruncateChunks == Op("truncate", "chunks", "", 0)

AlterEmbedding(dimension) == Op("alter_embedding", "chunks", "", dimension)

\* 20241204_initial_schema.py
upgrade_001_initial ==
    <<Op("create_extension", "vector", "", 0),
      Op("create_table", "users", "", 0),
      Op("create_index", "ix_users_id", "users", 0),
      Op("create_index", "ix_users_email", "users", 0),
      Op("create_table", "tenants", "", 0),
      Op("create_index", "ix_tenants_id", "tenants", 0),
      Op("create_index", "ix_tenants_slug", "tenants", 0),
      Op("create_table", "user_tenants", "roleenum", 0),
      Op("create_index", "ix_user_tenants_id", "user_tenants", 0),
      Op("create_index", "ix_user_tenants_user_id", "user_tenants", 0),
      Op("create_index", "ix_user_tenants_tenant_id", "user_tenants", 0),
      Op("create_index", "ix_user_tenant_unique", "user_tenants", 0),
      Op("create_table", "documents", "documentstatus", 0),
      Op("create_index", "ix_documents_id", "documents", 0),
      Op("create_index", "ix_documents_tenant_id", "documents", 0),
      Op("create_index", "ix_documents_user_id", "documents", 0),
      Op("create_index", "ix_documents_status", "documents", 0),
      Op("create_index", "ix_documents_storage_key", "documents", 0),
      Op("create_table", "chunks", "", 0),
      Op("create_index", "ix_chunks_id", "chunks", 0),
      Op("create_index", "ix_chunks_document_id", "chunks", 0),
      AlterEmbedding(1536),
      CreateHnsw(64),
      Op("create_table", "evaluation_runs", "", 0),
      Op("create_index", "ix_evaluation_runs_id", "evaluation_runs", 0),
      Op("create_index", "ix_evaluation_runs_tenant_id", "evaluation_runs", 0),
      Op("create_index", "ix_evaluation_runs_user_id", "evaluation_runs", 0),
      Op("create_index", "ix_evaluation_runs_created_at", "evaluation_runs", 0)>>

downgrade_001_initial ==
    <<Op("drop_index", "ix_evaluation_runs_created_at", "evaluation_runs", 0),
      Op("drop_index", "ix_evaluation_runs_user_id", "evaluation_runs", 0),
      Op("drop_index", "ix_evaluation_runs_tenant_id", "evaluation_runs", 0),
      Op("drop_index", "ix_evaluation_runs_id", "evaluation_runs", 0),
      Op("drop_table", "evaluation_runs", "", 0),
      DropHnsw,
      Op("drop_index", "ix_chunks_document_id", "chunks", 0),
      Op("drop_index", "ix_chunks_id", "chunks", 0),
      Op("drop_table", "chunks", "", 0),
      Op("drop_index", "ix_documents_storage_key", "documents", 0),
      Op("drop_index", "ix_documents_status", "documents", 0),
      Op("drop_index", "ix_documents_user_id", "documents", 0),
      Op("drop_index", "ix_documents_tenant_id", "documents", 0),
      Op("drop_index", "ix_documents_id", "documents", 0),
      Op("drop_table", "documents", "", 0),
      Op("drop_index", "ix_user_tenant_unique", "user_tenants", 0),
      Op("drop_index", "ix_user_tenants_tenant_id", "user_tenants", 0),
      Op("drop_index", "ix_user_tenants_user_id", "user_tenants", 0),
      Op("drop_index", "ix_user_tenants_id", "user_tenants", 0),
      Op("drop_table", "user_tenants", "", 0),
      Op("drop_index", "ix_tenants_slug", "tenants", 0),
      Op("drop_index", "ix_tenants_id", "tenants", 0),
      Op("drop_table", "tenants", "", 0),
      Op("drop_index", "ix_users_email", "users", 0),
      Op("drop_index", "ix_users_id", "users", 0),
      Op("drop_table", "users", "", 0),
      Op("drop_type_if_exists", "documentstatus", "", 0),
      Op("drop_type_if_exists", "roleenum", "", 0)>>

\* 20241204_1430_gemini_embeddings.py
upgrade_002_gemini_emb == <<DropHnsw, TruncateChunks, AlterEmbedding(768), CreateHnsw(64)>>

downgrade_002_gemini_emb == <<DropHnsw, TruncateChunks, AlterEmbedding(1536), CreateHnsw(64)>>

\* 20241205_local_embeddings.py
upgrade_003_local_emb == <<DropHnsw, TruncateChunks, AlterEmbedding(384), CreateHnsw(64)>>

downgrade_003_local_emb == <<DropHnsw, TruncateChunks, AlterEmbedding(768), CreateHnsw(64)>>

\* an upgrade that alters the column before it drops the index and empties
\* the table
MutUpgrade004AlterFirst == <<AlterEmbedding(768), DropHnsw, TruncateChunks, CreateHnsw(128)>>

\* 20241205_upgrade_embeddings_768.py
upgrade_004_768_emb == <<DropHnsw, TruncateChunks, AlterEmbedding(768), CreateHnsw(128)>>

\* a downgrade that recreates the index with the parameters of the upgrade
MutDowngrade004Ef128 == <<DropHnsw, TruncateChunks, AlterEmbedding(384), CreateHnsw(128)>>

downgrade_004_768_emb == <<DropHnsw, TruncateChunks, AlterEmbedding(384), CreateHnsw(64)>>

\* 20241205_add_document_indexes.py
upgrade_005_doc_indexes ==
    <<Op("create_index_if_not_exists", "ix_documents_created_at", "documents", 0),
      Op("create_index_if_not_exists", "idx_tenant_created", "documents", 0)>>

downgrade_005_doc_indexes ==
    <<Op("drop_index_if_exists", "idx_tenant_created", "", 0),
      Op("drop_index_if_exists", "ix_documents_created_at", "", 0)>>

\* 20241206_add_tenant_credentials.py
upgrade_20241206_tenant_credentials ==
    <<Op("create_table", "tenant_credentials", "", 0),
      Op("create_index", "ix_tenant_credentials_id", "tenant_credentials", 0),
      Op("create_index", "ix_tenant_credentials_tenant_id", "tenant_credentials", 0),
      Op("create_index", "ix_tenant_credentials_integration_type", "tenant_credentials", 0),
      Op("create_unique_constraint", "uq_tenant_credentials_tenant_integration",
         "tenant_credentials", 0)>>

downgrade_20241206_tenant_credentials ==
    <<Op("drop_constraint", "uq_tenant_credentials_tenant_integration",
         "tenant_credentials", 0),
      Op("drop_index", "ix_tenant_credentials_integration_type", "tenant_credentials", 0),
      Op("drop_index", "ix_tenant_credentials_tenant_id", "tenant_credentials", 0),
      Op("drop_index", "ix_tenant_credentials_id", "tenant_credentials", 0),
      Op("drop_table", "tenant_credentials", "", 0)>>

\* the upgrade() and the downgrade() of a revision
UpgradeOps(revision) ==
    CASE revision = "001_initial" -> upgrade_001_initial
      [] revision = "002_gemini_emb" -> upgrade_002_gemini_emb
      [] revision = "003_local_emb" -> upgrade_003_local_emb
      [] revision = "004_768_emb" -> upgrade_004_768_emb
      [] revision = "005_doc_indexes" -> upgrade_005_doc_indexes
      [] OTHER -> upgrade_20241206_tenant_credentials

DowngradeOps(revision) ==
    CASE revision = "001_initial" -> downgrade_001_initial
      [] revision = "002_gemini_emb" -> downgrade_002_gemini_emb
      [] revision = "003_local_emb" -> downgrade_003_local_emb
      [] revision = "004_768_emb" -> downgrade_004_768_emb
      [] revision = "005_doc_indexes" -> downgrade_005_doc_indexes
      [] OTHER -> downgrade_20241206_tenant_credentials

\* a database nothing was run on. dimension: that of chunks.embedding, 0 when
\* the column is no vector; ef_construction: that of the HNSW index, 0 without
\* it; rows: the dimensions of the embeddings of the chunk rows
EmptyDatabase ==
    [version |-> "None", extensions |-> {}, tables |-> {}, types |-> {}, indexes |-> {},
     constraints |-> {}, dimension |-> 0, ef_construction |-> 0, rows |-> {}]

IndexNames(d) == {i[1] : i \in d.indexes}

\* the statement raises in PostgreSQL
Fails(d, o) ==
    CASE o.op = "create_table" -> o.name \in d.tables \/ o.on \in d.types
      [] o.op = "drop_table" -> o.name \notin d.tables
      [] o.op = "create_index" -> o.name \in IndexNames(d) \/ o.on \notin d.tables
      [] o.op = "create_index_if_not_exists" -> o.on \notin d.tables
      [] o.op = "create_hnsw" ->
            o.name \in IndexNames(d) \/ o.on \notin d.tables \/ d.dimension = 0
      [] o.op = "drop_index" -> o.name \notin IndexNames(d)
      [] o.op = "truncate" -> o.name \notin d.tables
      [] o.op = "alter_embedding" ->
            o.name \notin d.tables \/ \E row \in d.rows : row # o.n
      [] o.op = "create_unique_constraint" ->
            <<o.name, o.on>> \in d.constraints \/ o.on \notin d.tables
      [] o.op = "drop_constraint" -> <<o.name, o.on>> \notin d.constraints
      [] OTHER -> FALSE

\* the database after a statement that does not raise
Apply(d, o) ==
    CASE o.op = "create_extension" -> [d EXCEPT !.extensions = @ \cup {o.name}]
      [] o.op = "create_table" ->
            [d EXCEPT !.tables = @ \cup {o.name},
                      !.types = @ \cup (IF o.on = "" THEN {} ELSE {o.on})]
      [] o.op = "drop_table" ->
            [d EXCEPT !.tables = @ \ {o.name},
                      !.indexes = {i \in @ : i[2] # o.name},
                      !.constraints = {c \in @ : c[2] # o.name},
                      !.dimension = IF o.name = "chunks" THEN 0 ELSE @,
                      !.ef_construction = IF o.name = "chunks" THEN 0 ELSE @,
                      !.rows = IF o.name = "chunks" THEN {} ELSE @]
      [] o.op \in {"create_index", "create_index_if_not_exists"} ->
            [d EXCEPT !.indexes = IF o.name \in IndexNames(d) THEN @
                                  ELSE @ \cup {<<o.name, o.on>>}]
      [] o.op = "create_hnsw" ->
            [d EXCEPT !.indexes = @ \cup {<<o.name, o.on>>}, !.ef_construction = o.n]
      [] o.op \in {"drop_index", "drop_index_if_exists"} ->
            [d EXCEPT !.indexes = {i \in @ : i[1] # o.name},
                      !.ef_construction = IF o.name = HnswIndex THEN 0 ELSE @]
      [] o.op = "truncate" -> [d EXCEPT !.rows = IF o.name = "chunks" THEN {} ELSE @]
      [] o.op = "alter_embedding" -> [d EXCEPT !.dimension = o.n]
      [] o.op = "create_unique_constraint" ->
            [d EXCEPT !.constraints = @ \cup {<<o.name, o.on>>}]
      [] o.op = "drop_constraint" ->
            [d EXCEPT !.constraints = @ \ {<<o.name, o.on>>}]
      [] o.op = "drop_type_if_exists" -> [d EXCEPT !.types = @ \ {o.name}]
      [] OTHER -> d

\* no migration is running
NoMigration == [revision |-> "None", direction |-> "none", ops |-> <<>>, failed |-> FALSE]

\* alembic upgrade +1: the script that revises the current version starts
alembic_upgrade(d, revision) ==
    [NoMigration EXCEPT !.revision = revision, !.direction = "upgrade",
                        !.ops = UpgradeOps(revision)]

\* alembic downgrade -1: the script of the current version starts
alembic_downgrade(d) ==
    [NoMigration EXCEPT !.revision = d.version, !.direction = "downgrade",
                        !.ops = DowngradeOps(d.version)]

\* the version the alembic_version table holds after the script
VersionAfter(m) == IF m.direction = "upgrade" THEN m.revision ELSE DownRevision(m.revision)

\* the embedding dimensions the application's models have had
Dimensions == {384, 768, 1536}

\* the insert of a chunk row with an embedding of some dimension; the column
\* type rejects another dimension than its own
insert_chunk(d, dimension) ==
    IF "chunks" \in d.tables /\ dimension = d.dimension
    THEN [d EXCEPT !.rows = @ \cup {dimension}]
    ELSE d

(***************************************************************************)
(* Initial state and specifications                                        *)
(***************************************************************************)
InitDocs ==
    /\ documents = <<>>
    /\ chunks = {}
    /\ files = {}
    /\ runs = <<>>
    /\ nTasks = <<>>
    /\ nextDocId = 1
    /\ resp = BaseResp

InitReg ==
    /\ users = <<>>
    /\ tenants = <<>>
    /\ memberships = {}
    /\ reqs = <<>>
    /\ nextUserId = 1
    /\ nextTenantId = 1

InitTok == tok = NoTok /\ authResp = BaseAuthResp

InitCred ==
    /\ tenant_credentials = <<>>
    /\ credOps = <<>>
    /\ nextCredId = 1

\* config.py lines 78-84: the defaults, no integration configured
DefaultSettings ==
    [JIRA_URL |-> <<>>, JIRA_EMAIL |-> <<>>, JIRA_API_TOKEN |-> <<>>,
     SMTP_HOST |-> <<>>, SMTP_USER |-> <<>>, SMTP_PASSWORD |-> <<>>]

InitAgent == settings = DefaultSettings /\ agentResp = NoAgentCall

InitRag == rag = NoRagCall /\ ans = NoAnswerCall

InitSto == disk = EmptyDisk /\ stoResp = NoStorageCall

InitRet == ret = NoRetrieval /\ mrg = NoMerge

InitMig == db = EmptyDatabase /\ mig = NoMigration

\* the state after construction: an empty database, no request yet
Init ==
    now = 0 /\ InitDocs /\ InitReg /\ InitTok /\ InitCred /\ InitAgent /\ InitRag
    /\ InitSto /\ InitRet /\ InitMig

\* credentials the document routes are called with
MemberOfTenant1 ==
    create_access_token([sub |-> 1, email |-> "a@x", tenant_id |-> 1, role |-> "member"], 0)

MemberOfTenant2 ==
    create_access_token([sub |-> 2, email |-> "b@x", tenant_id |-> 2, role |-> "member"], 0)

ViewerOfTenant2 ==
    create_access_token([sub |-> 3, email |-> "c@x", tenant_id |-> 2, role |-> "viewer"], 0)

RefreshOfUser1 == create_refresh_token([sub |-> 1], 0)

DocCreds == {MemberOfTenant1, MemberOfTenant2, ViewerOfTenant2, RefreshOfUser1, NoCredentials}

AdminOfTenant1 ==
    create_access_token([sub |-> 4, email |-> "d@x", tenant_id |-> 1, role |-> "admin"], 0)

OwnerOfTenant2 ==
    create_access_token([sub |-> 5, email |-> "e@x", tenant_id |-> 2, role |-> "owner"], 0)

\* a token whose role is none of the four
GuestOfTenant1 ==
    create_access_token([sub |-> 6, email |-> "f@x", tenant_id |-> 1, role |-> "guest"], 0)

\* a member's token that expired a minute ago
ExpiredMember ==
    create_access_token([sub |-> 1, email |-> "a@x", tenant_id |-> 1, role |-> "member"],
                        0 - ACCESS_TOKEN_EXPIRE_MINUTES - 1)

\* a member's token signed with another key
ForgedMember ==
    JwtEncode([sub |-> 1, email |-> "a@x", tenant_id |-> 1, role |-> "member",
               exp |-> ACCESS_TOKEN_EXPIRE_MINUTES, type |-> "access"], "other")

TenantCreds == {MemberOfTenant1, MemberOfTenant2, ViewerOfTenant2}

UploadCreds ==
    DocCreds \cup {AdminOfTenant1, OwnerOfTenant2, GuestOfTenant1, ExpiredMember, ForgedMember}

TextFile == [filename |-> <<"a", ".", "t", "x", "t">>, size |-> 1]

UploadFiles ==
    { TextFile,
      [filename |-> <<"b", " ", "c", ".", "P", "D", "F">>, size |-> MaxUploadBytes],
      [filename |-> <<"a", ".", "t", "x", "t">>, size |-> 0],
      [filename |-> <<"a", ".", "t", "x", "t">>, size |-> MaxUploadBytes + 1],
      [filename |-> <<"x", ".", "e", "x", "e">>, size |-> 1],
      [filename |-> <<".", "t", "x", "t">>, size |-> 1],
      [filename |-> <<>>, size |-> 1] }

DocIds == 1..MaxDocs

ParseOutcomes == {-1, 0} \cup (1..MaxChunks)

Upload(creds, upfiles, uuids, oks) ==
    \E cred \in creds, file \in upfiles, uuid \in uuids,
       saveOk \in oks, commitOk \in oks, pathOk \in oks :
        /\ nextDocId <= MaxDocs
        /\ upload_document(cred, file, uuid, saveOk, commitOk, pathOk)
        /\ UNCHANGED notDocVars

Delete(creds, oks) ==
    \E cred \in creds, id \in DocIds, commitOk \in oks, fileGone \in oks :
        delete_document(cred, id, commitOk, fileGone) /\ UNCHANGED notDocVars

GetDocument(creds) ==
    \E cred \in creds, id \in DocIds : get_document(cred, id) /\ UNCHANGED notDocVars

GetDocumentStats(creds) ==
    \E cred \in creds, id \in DocIds : get_document_stats(cred, id) /\ UNCHANGED notDocVars

ListDocuments(creds) ==
    \E cred \in creds : list_documents(cred) /\ UNCHANGED notDocVars

RagQuery(creds) ==
    \E cred \in creds, ids \in SUBSET DocIds : rag_query(cred, ids) /\ UNCHANGED notDocVars

Load(oks) == \E d \in DOMAIN runs, dbOk \in oks : ProcessLoad(d, dbOk) /\ UNCHANGED notDocVars

Parse(outcomes) ==
    \E d \in DOMAIN runs, outcome \in outcomes : ProcessParse(d, outcome) /\ UNCHANGED notDocVars

Chunking(oks) ==
    \E d \in DOMAIN runs, embedOk \in oks, dbOk \in oks :
        ProcessChunk(d, embedOk, dbOk) /\ UNCHANGED notDocVars

FinalCommit(oks) ==
    \E d \in DOMAIN runs, dbOk \in oks : ProcessFinalCommit(d, dbOk) /\ UNCHANGED notDocVars

Complete(oks) ==
    \E d \in DOMAIN runs, dbOk \in oks : ProcessComplete(d, dbOk) /\ UNCHANGED notDocVars

Failed(oks) ==
    \E d \in DOMAIN runs, dbOk \in oks : ProcessFailed(d, dbOk) /\ UNCHANGED notDocVars

\* The document lifecycle: uploads, ingestion with every failure, deletes and
\* reads by one tenant's member
Next ==
    \/ Upload({MemberOfTenant1}, {TextFile}, 1..NumKeys, BOOLEAN)
    \/ Delete({MemberOfTenant1}, BOOLEAN)
    \/ GetDocument({MemberOfTenant1})
    \/ ListDocuments({MemberOfTenant1})
    \/ Load(BOOLEAN)
    \/ Parse(ParseOutcomes)
    \/ Chunking(BOOLEAN)
    \/ FinalCommit(BOOLEAN)
    \/ Complete(BOOLEAN)
    \/ Failed(BOOLEAN)

Spec == Init /\ [][Next]_vars

\* Two tenants: uploads by a member of each, ingestion without failures, and
\* every route called with every credential
NextTenants ==
    \/ Upload({MemberOfTenant1, MemberOfTenant2}, {TextFile}, {1}, {TRUE})
    \/ Delete(TenantCreds, {TRUE})
    \/ GetDocument(TenantCreds)
    \/ GetDocumentStats(TenantCreds)
    \/ ListDocuments(TenantCreds)
    \/ RagQuery(TenantCreds)
    \/ Load({TRUE})
    \/ Parse(1..MaxChunks)
    \/ Chunking({TRUE})
    \/ FinalCommit({TRUE})
    \/ Complete({TRUE})
    \/ Failed({TRUE})

SpecTenants == Init /\ [][NextTenants]_vars

\* Uploads of every file by every credential, with every failure of the
\* storage backend and the database, and deletes
NextUpload ==
    \/ Upload(UploadCreds, UploadFiles, {1}, BOOLEAN)
    \/ Delete({MemberOfTenant1, MemberOfTenant2}, {TRUE})

SpecUpload == Init /\ [][NextUpload]_vars

\* a stored file disappears from the storage backend without a request: the
\* upload directory was cleaned, the bucket expired the object
LoseFile ==
    \E storage_key \in files :
        /\ files' = files \ {storage_key}
        /\ UNCHANGED <<documents, chunks, runs, nTasks, nextDocId, resp, notDocVars>>

\* Deletes by a member of each tenant, with every outcome of the commit and of
\* the file deletion, of documents that are being ingested or have been
NextDelete ==
    \/ Upload({MemberOfTenant1}, {TextFile}, 1..NumKeys, {TRUE})
    \/ Delete({MemberOfTenant1, MemberOfTenant2}, BOOLEAN)
    \/ LoseFile
    \/ Load({TRUE})
    \/ Parse(1..MaxChunks)
    \/ Chunking({TRUE})
    \/ FinalCommit({TRUE})
    \/ Complete({TRUE})
    \/ Failed({TRUE})

SpecDelete == Init /\ [][NextDelete]_vars

\* Ingestion runs in which nothing fails but the embedding of a chunk or the
\* commit that persists chunks
NextIngest ==
    \/ Upload({MemberOfTenant1}, {TextFile}, 1..NumKeys, {TRUE})
    \/ Load({TRUE})
    \/ Parse(1..MaxChunks)
    \/ Chunking(BOOLEAN)
    \/ FinalCommit(BOOLEAN)
    \/ Complete({TRUE})
    \/ Failed({TRUE})

SpecIngest == Init /\ [][NextIngest]_vars

\* the requests registration is called with
EmailW == <<"w", "@", "x">>

EmailUpperW == <<"W", "@", "x">>

EmailV == <<"v", "@", "x">>

WsWorkspace == <<"W", "s", " ", "W", "o", "r", "k", "s", "p", "a", "c", "e">>

RegisterRequests ==
    { [email |-> EmailW, tenant_name |-> <<>>],
      [email |-> EmailUpperW, tenant_name |-> <<>>],
      [email |-> EmailV, tenant_name |-> WsWorkspace] }

CreateTenantRequests ==
    { [name |-> WsWorkspace, slug |-> <<>>],
      [name |-> <<"T">>, slug |-> RegisterSlug(WsWorkspace) \o <<"-", "1">>] }

\* the access tokens login hands to the registered users
LoginTokens ==
    { create_access_token(TokenData(m.user_id, users[m.user_id].email, m.tenant_id, m.role), now) :
        m \in UNION {DefaultMemberships(u) : u \in DOMAIN users} }

RegisterCheck ==
    \E q \in RegisterRequests :
        /\ Len(reqs) < MaxReqs
        /\ register_check(q.email, q.tenant_name)
        /\ UNCHANGED notRegVars

RegisterInsertUser == \E r \in DOMAIN reqs : register_insert_user(r) /\ UNCHANGED notRegVars

RegisterProbe == \E r \in DOMAIN reqs : register_probe(r) /\ UNCHANGED notRegVars

RegisterInsertTenant == \E r \in DOMAIN reqs : register_insert_tenant(r) /\ UNCHANGED notRegVars

RegisterCommit(oks) ==
    \E r \in DOMAIN reqs, dbOk \in oks : register_commit(r, dbOk) /\ UNCHANGED notRegVars

CreateTenantCheck ==
    \E cred \in LoginTokens, q \in CreateTenantRequests :
        /\ Len(reqs) < MaxReqs
        /\ create_tenant_check(cred, q.name, q.slug)
        /\ UNCHANGED notRegVars

CreateTenantProbe == \E r \in DOMAIN reqs : create_tenant_probe(r) /\ UNCHANGED notRegVars

CreateTenantInsert == \E r \in DOMAIN reqs : create_tenant_insert(r) /\ UNCHANGED notRegVars

CreateTenantCommit(oks) ==
    \E r \in DOMAIN reqs, dbOk \in oks : create_tenant_commit(r, dbOk) /\ UNCHANGED notRegVars

\* Overlapping register and create-tenant requests on a database that executes
\* every statement
NextReg ==
    \/ RegisterCheck
    \/ RegisterInsertUser
    \/ RegisterProbe
    \/ RegisterInsertTenant
    \/ RegisterCommit({TRUE})
    \/ CreateTenantCheck
    \/ CreateTenantProbe
    \/ CreateTenantInsert
    \/ CreateTenantCommit({TRUE})

SpecReg == Init /\ [][NextReg]_vars

\* The same requests on a database whose commits can fail
NextRegFaulty ==
    \/ RegisterCheck
    \/ RegisterInsertUser
    \/ RegisterProbe
    \/ RegisterInsertTenant
    \/ RegisterCommit(BOOLEAN)
    \/ CreateTenantCheck
    \/ CreateTenantProbe
    \/ CreateTenantInsert
    \/ CreateTenantCommit(BOOLEAN)

SpecRegFaulty == Init /\ [][NextRegFaulty]_vars

\* The database after register(w@x) and register(v@x, "Ws Workspace")
SeededReg ==
    /\ users = (1 :> [email |-> EmailW, is_active |-> TRUE])
               @@ (2 :> [email |-> EmailV, is_active |-> TRUE])
    /\ tenants = (1 :> [name |-> RegisterTenantName(EmailW, <<>>),
                        slug |-> RegisterSlug(RegisterTenantName(EmailW, <<>>))])
                 @@ (2 :> [name |-> WsWorkspace,
                           slug |-> NumberedSlug(RegisterSlug(WsWorkspace), 1)])
    /\ memberships = {[user_id |-> 1, tenant_id |-> 1, role |-> "owner", created_at |-> 0],
                      [user_id |-> 2, tenant_id |-> 2, role |-> "owner", created_at |-> 0]}
    /\ reqs = <<>>
    /\ nextUserId = 3
    /\ nextTenantId = 3

InitSeeded ==
    now = 0 /\ InitDocs /\ SeededReg /\ InitTok /\ InitCred /\ InitAgent /\ InitRag
    /\ InitSto /\ InitRet /\ InitMig

Roles == {"owner", "admin", "member", "viewer"}

\* the claims the minting functions are called with: of a registered and of an
\* unknown user, with each role, an unknown role or none, and with or without
\* a type key of the caller's own
PlainClaims ==
    {[sub |-> u] : u \in {1, 9}}
    \cup {[sub |-> u, tenant_id |-> 1, role |-> r] : u \in {1, 9}, r \in Roles \cup {"guest"}}

MintClaims ==
    PlainClaims \cup {DictUpdate(c, [type |-> t]) : c \in PlainClaims, t \in {"access", "refresh"}}

\* the instants the clock steps to: past the lifetime of an access token, MaxClock
\* times, and past the lifetime of a refresh token
Instants ==
    {k * (ACCESS_TOKEN_EXPIRE_MINUTES + 1) : k \in 1..MaxClock}
    \cup {REFRESH_TOKEN_EXPIRE_DAYS * MinutesPerDay + 1}

MintAccess == \E data \in MintClaims : mint_access_token(data) /\ UNCHANGED <<now, notAuthVars>>

MintRefresh == \E data \in MintClaims : mint_refresh_token(data) /\ UNCHANGED <<now, notAuthVars>>

ProtectedRoute == \E r \in Roles : protected_route(r) /\ UNCHANGED <<now, notAuthVars>>

Refresh == refresh_token_endpoint /\ UNCHANGED <<now, notAuthVars>>

Tick == \E t \in Instants : t > now /\ now' = t /\ UNCHANGED <<authVars, notAuthVars>>

\* Tokens are minted, presented to role gates and to the refresh endpoint, and
\* time passes
NextAuth ==
    \/ MintAccess
    \/ MintRefresh
    \/ ProtectedRoute
    \/ Refresh
    \/ Tick

SpecAuth == InitSeeded /\ [][NextAuth]_vars

\* Registered users log in, refresh, create tenants and use the access token
\* of an earlier login, while minutes pass
MaxMinutes == 2

MaxTenantReqs == 2

LoginEmails == {EmailW, EmailUpperW}

Login ==
    \E email \in LoginEmails, passwordOk \in BOOLEAN :
        login(email, passwordOk) /\ UNCHANGED <<now, notAuthVars>>

\* the refresh token of a login of the user
LoginRefresh ==
    \E u \in DOMAIN users :
        /\ refresh_request(create_refresh_token([sub |-> u], now), "refresh")
        /\ UNCHANGED <<now, notAuthVars>>

\* the token of a login is presented to a route for members
UseLoginToken ==
    tok.by = "login" /\ protected_route("member") /\ UNCHANGED <<now, notAuthVars>>

\* the token of a login is presented to create_tenant
CreateTenantByLogin ==
    \E q \in CreateTenantRequests :
        /\ tok.by = "login"
        /\ Len(reqs) < MaxTenantReqs
        /\ create_tenant_check(tok.cred, q.name, q.slug)
        /\ UNCHANGED notRegVars

\* datetime.utcnow counts microseconds: the stamp of a membership is later
\* than the stamps of the memberships committed before it
CreateTenantCommitLater ==
    /\ \A m \in memberships : m.created_at < now
    /\ CreateTenantCommit({TRUE})

PassMinute == now < MaxMinutes /\ now' = now + 1 /\ UNCHANGED <<authVars, notAuthVars>>

NextLogin ==
    \/ Login
    \/ LoginRefresh
    \/ UseLoginToken
    \/ CreateTenantByLogin
    \/ CreateTenantProbe
    \/ CreateTenantInsert
    \/ CreateTenantCommitLater
    \/ PassMinute

SpecLogin == InitSeeded /\ [][NextLogin]_vars

\* credentials dicts a client posts to /credentials
JiraComplete ==
    <<<<JIRA_URL, <<"u">>>>, <<JIRA_EMAIL, <<"e">>>>, <<JIRA_API_TOKEN, <<"t", "\"", "\\">>>>>>

JiraUrlOnly == <<<<JIRA_URL, <<"v">>>>>>

CredentialPayloads == {JiraComplete, JiraUrlOnly}

IntegrationTypes == {"jira", "email"}

SaveSelect ==
    \E t \in DOMAIN tenants, ty \in IntegrationTypes, c \in CredentialPayloads :
        /\ Len(credOps) < MaxCredOps
        /\ save_credentials_select(t, ty, c)
        /\ UNCHANGED notCredVars

SaveCommit(oks) ==
    \E o \in DOMAIN credOps, iv \in 1..NumIvs, dbOk \in oks :
        save_credentials_commit(o, iv, dbOk) /\ UNCHANGED notCredVars

DeleteSelect ==
    \E t \in DOMAIN tenants, ty \in IntegrationTypes :
        /\ Len(credOps) < MaxCredOps
        /\ delete_credentials_select(t, ty)
        /\ UNCHANGED notCredVars

DeleteCommit(oks) ==
    \E o \in DOMAIN credOps, dbOk \in oks :
        delete_credentials_commit(o, dbOk) /\ UNCHANGED notCredVars

\* Overlapping calls of the credentials service
NextCred ==
    \/ SaveSelect
    \/ SaveCommit(BOOLEAN)
    \/ DeleteSelect
    \/ DeleteCommit(BOOLEAN)

SpecCred == InitSeeded /\ [][NextCred]_vars

EmailComplete ==
    <<<<SMTP_HOST, <<"h">>>>, <<SMTP_USER, <<"s">>>>, <<SMTP_PASSWORD, <<"p">>>>>>

SmtpHostOnly == <<<<SMTP_HOST, <<"g">>>>>>

\* the dicts posted for an integration type; the route takes any dict
AgentPayloads(integration_type) ==
    IF integration_type = "jira" THEN {JiraComplete, JiraUrlOnly, <<>>}
    ELSE {EmailComplete, SmtpHostOnly}

\* an environment that configures both integrations process-wide
CompleteSettings ==
    [JIRA_URL |-> <<"U">>, JIRA_EMAIL |-> <<"E">>, JIRA_API_TOKEN |-> <<"T">>,
     SMTP_HOST |-> <<"H">>, SMTP_USER |-> <<"S">>, SMTP_PASSWORD |-> <<"P">>]

SettingsChoices == {DefaultSettings, CompleteSettings}

AgentCreds == {MemberOfTenant1, MemberOfTenant2, NoCredentials}

AgentSaveSelect ==
    \E t \in DOMAIN tenants, ty \in IntegrationTypes :
        \E c \in AgentPayloads(ty) :
            /\ Len(credOps) < MaxAgentOps
            /\ save_credentials_select(t, ty, c)
            /\ UNCHANGED notCredVars

AgentSaveCommit ==
    \E o \in DOMAIN credOps :
        save_credentials_commit(o, 1, TRUE) /\ UNCHANGED notCredVars

AgentDeleteSelect ==
    \E t \in DOMAIN tenants, ty \in IntegrationTypes :
        /\ Len(credOps) < MaxAgentOps
        /\ delete_credentials_select(t, ty)
        /\ UNCHANGED notCredVars

CreateJiraTicket ==
    \E cred \in AgentCreds, clientOk \in BOOLEAN :
        create_jira_ticket(cred, TRUE, clientOk)
        /\ UNCHANGED <<settings, credVars, notAgentVars>>

TestJiraConnection ==
    \E cred \in AgentCreds, outcome \in {"connected", "failed"} :
        test_jira_connection(cred, TRUE, outcome)
        /\ UNCHANGED <<settings, credVars, notAgentVars>>

SendEmail ==
    \E cred \in AgentCreds, clientOk \in BOOLEAN :
        send_email(cred, TRUE, clientOk)
        /\ UNCHANGED <<settings, credVars, notAgentVars>>

\* Saves and deletes of credentials beside calls of the agent routes, under
\* either environment
NextAgent ==
    \/ AgentSaveSelect
    \/ AgentSaveCommit
    \/ AgentDeleteSelect
    \/ DeleteCommit({TRUE})
    \/ CreateJiraTicket
    \/ TestJiraConnection
    \/ SendEmail

InitAgentSeeded ==
    /\ now = 0 /\ InitDocs /\ SeededReg /\ InitTok /\ InitCred
    /\ settings \in SettingsChoices
    /\ agentResp = NoAgentCall
    /\ InitRag /\ InitSto /\ InitRet /\ InitMig

SpecAgent == InitAgentSeeded /\ [][NextAgent]_vars

\* dicts whose values hold the characters json.dumps escapes
QuotedPayload == <<<<JIRA_API_TOKEN, <<"\"", "\\", "a">>>>, <<JIRA_URL, <<"\\">>>>>>

CryptPayloads == {JiraComplete, QuotedPayload, <<>>}

CryptSaveSelect ==
    \E t \in DOMAIN tenants, ty \in IntegrationTypes, c \in CryptPayloads :
        /\ Len(credOps) < MaxAgentOps
        /\ save_credentials_select(t, ty, c)
        /\ UNCHANGED notCredVars

\* a stored ciphertext is damaged, or replaced by one made under another key
CorruptStored ==
    \E c \in DOMAIN tenant_credentials :
        LET stored == tenant_credentials[c].encrypted_credentials.encrypted_data IN
        /\ decrypt(stored).ok
        /\ \E x \in Corruptions(stored, JiraUrlOnly) :
                tenant_credentials' =
                    [tenant_credentials EXCEPT ![c].encrypted_credentials.encrypted_data = x]
        /\ UNCHANGED <<credOps, nextCredId, agentVars, notAgentVars>>

GetCredentials ==
    \E t \in DOMAIN tenants, ty \in IntegrationTypes, dbOk \in BOOLEAN :
        /\ agentResp' = [AgentCall("get_credentials", NoCredentials, t, ty, dbOk)
                            EXCEPT !.tenant_creds = get_credentials(t, ty, dbOk)]
        /\ UNCHANGED <<settings, credVars, notAgentVars>>

\* Saves, damage to what is stored, and reads through get_credentials
NextCrypt ==
    \/ CryptSaveSelect
    \/ SaveCommit({TRUE})
    \/ CorruptStored
    \/ GetCredentials

SpecCrypt == InitSeeded /\ [][NextCrypt]_vars

\* the queries of the RAG requests: a greeting, two words without a question
\* word, and a question
QueryHi == <<"H", "i", "!">>

QueryTwoWords == <<"r", "e", "f", "u", "n", "d", " ", "p", "o", "l", "i", "c", "y">>

QueryQuestion ==
    <<"W", "h", "a", "t", " ", "d", "o", "e", "s", " ", "t", "h", "e", " ", "p", "o", "l", "i", "c", "y", " ", "s", "a", "y", "?">>

RagQueries == {QueryHi, QueryTwoWords, QueryQuestion}

StartQuery ==
    \E cred \in AgentCreds, query \in RagQueries,
       retrieved \in -1..MaxRetrieved, llmOk \in BOOLEAN :
        /\ rag.pc = "closed"
        /\ rag' = query_documents(cred, query, retrieved, llmOk)
        /\ UNCHANGED <<ans, notRagVars>>

StartQueryStream ==
    \E cred \in AgentCreds, query \in RagQueries :
        /\ rag.pc = "closed"
        /\ rag' = query_documents_stream(cred, query)
        /\ UNCHANGED <<ans, notRagVars>>

GenerateRetrieve ==
    \E retrieved \in -1..MaxRetrieved :
        /\ rag.pc = "retrieve"
        /\ rag' = generate_retrieve(rag, retrieved)
        /\ UNCHANGED <<ans, notRagVars>>

GenerateToken ==
    \E outcome \in {"content", "empty", "end", "raise"} :
        /\ rag.pc = "astream"
        /\ outcome \in {"content", "empty"} => rag.responses < MaxResponses
        /\ rag' = generate_token(rag, outcome)
        /\ UNCHANGED <<ans, notRagVars>>

GenerateSources ==
    \E ok \in BOOLEAN :
        /\ rag.pc = "sources"
        /\ rag' = generate_sources(rag, ok)
        /\ UNCHANGED <<ans, notRagVars>>

GenerateExcept ==
    /\ rag.pc = "except"
    /\ rag' = generate_except(rag)
    /\ UNCHANGED <<ans, notRagVars>>

GenerateDone ==
    /\ rag.pc \in {"return", "done"}
    /\ rag' = generate_done(rag)
    /\ UNCHANGED <<ans, notRagVars>>

NextRag ==
    \/ StartQuery
    \/ StartQueryStream
    \/ GenerateRetrieve
    \/ GenerateToken
    \/ GenerateSources
    \/ GenerateExcept
    \/ GenerateDone

SpecRag == InitSeeded /\ [][NextRag]_vars

\* the queries and the chunk lists given to the answer engine
QueryThanks == <<"t", "h", "a", "n", "k", "s">>

QueryThreeWords ==
    <<"e", "x", "p", "l", "a", "i", "n", " ", "r", "e", "f", "u", "n", "d", " ", "p", "o", "l", "i", "c", "y">>

QueryShowMe == <<"s", "h", "o", "w", " ", "m", "e">>

AnswerQueries ==
    {QueryHi, QueryThanks, QueryTwoWords, QueryThreeWords, QueryShowMe, QueryQuestion}

ChunkChoices == {Unscored, Scored(30), Scored(40), Scored(90)}

ChunkLists == UNION {[1..n -> ChunkChoices] : n \in 0..MaxChunkList}

\* the arguments of a call that has not been made yet
AnswerInputs ==
    {[NoAnswerCall EXCEPT !.query = query, !.chunks = retrieved_chunks,
                          !.llmOk = llmOk] :
        query \in AnswerQueries, retrieved_chunks \in ChunkLists,
        llmOk \in BOOLEAN}

CallGenerateAnswer ==
    /\ ans.fn = "none"
    /\ ans' = generate_answer(ans.query, ans.chunks, ans.llmOk)
    /\ UNCHANGED <<rag, notRagVars>>

CallGenerateAnswerStream ==
    /\ ans.fn = "none"
    /\ ans' = generate_answer_stream(ans.query, ans.chunks, ans.llmOk)
    /\ UNCHANGED <<rag, notRagVars>>

NextAnswer == CallGenerateAnswer \/ CallGenerateAnswerStream

InitAnswer ==
    /\ now = 0 /\ InitDocs /\ InitReg /\ InitTok /\ InitCred /\ InitAgent
    /\ rag = NoRagCall
    /\ ans \in AnswerInputs
    /\ InitSto /\ InitRet /\ InitMig

SpecAnswer == InitAnswer /\ [][NextAnswer]_vars

\* the keys the storage service is called with: two keys of two tenants, a
\* key with ".." parts, a key with a "." part, a directory, a key below a file
KeyA == <<"t", "1", "/", "a">>

KeyB == <<"t", "2", "/", "b">>

KeyDotDot ==
    <<"t", "1", "/", "x", "/", ".", ".", "/", ".", ".", "/", "t", "2", "/", "b">>

KeyDot == <<".", "/", "t", "1", "/", "a">>

KeyDir == <<"t", "1">>

KeyBelowFile == <<"t", "1", "/", "a", "/", "c">>

KeyInputs == {KeyA, KeyB, KeyDotDot, KeyDot, KeyDir, KeyBelowFile}

SaveFile ==
    \E bytes \in 1..NumBytes, storage_key \in KeyInputs :
        LET done == save_file(bytes, storage_key, disk) IN
        /\ disk' = done.disk
        /\ stoResp' = done.call
        /\ UNCHANGED notStoVars

DeleteFile ==
    \E storage_key \in KeyInputs :
        LET done == delete_file(storage_key, disk) IN
        /\ disk' = done.disk
        /\ stoResp' = done.call
        /\ UNCHANGED notStoVars

FileExists ==
    \E storage_key \in KeyInputs :
        /\ stoResp' = [NoStorageCall EXCEPT !.op = "file_exists",
                                            !.storage_key = storage_key,
                                            !.result = file_exists(storage_key, disk),
                                            !.existed = file_exists(storage_key, disk)]
        /\ UNCHANGED <<disk, notStoVars>>

NextStorage == SaveFile \/ DeleteFile \/ FileExists

SpecStorage == Init /\ [][NextStorage]_vars

\* the result lists of the two searches: every choice of the chunks found and
\* of their scores, best first
VectorScores == {200, 900}

Bm25Scores == {0, 1000}

ListOf(found) ==
    SortDesc([i \in 1..Cardinality(DOMAIN found) |->
                 Result(InOrder(DOMAIN found)[i], found[InOrder(DOMAIN found)[i]], -1, -1)],
             "score")

SearchResults(scores) ==
    {ListOf(found) : found \in UNION {[ids -> scores] : ids \in SUBSET (1..NumChunkIds)}}

\* what reranker.predict returns: a score for each chunk, or nothing (it raised)
RerankScores == {<<>>} \cup [1..NumChunkIds -> {1, 2}]

RetrieveStart ==
    \E top_k \in 1..MaxTopK, use_hybrid \in BOOLEAN, use_reranking \in BOOLEAN,
       use_query_expansion \in BOOLEAN, reranker \in BOOLEAN :
        /\ ret.pc = "done"
        /\ ret' = retrieve_start(top_k, use_hybrid, use_reranking,
                                 use_query_expansion, reranker)
        /\ UNCHANGED <<mrg, notRetVars>>

RetrieveSearch ==
    \E vector_results \in SearchResults(VectorScores),
       bm25_results \in SearchResults(Bm25Scores), searchOk \in BOOLEAN :
        /\ ret.pc = "search"
        /\ ret' = retrieve_search(ret, vector_results, bm25_results, searchOk)
        /\ UNCHANGED <<mrg, notRetVars>>

RetrieveRank ==
    \E scores \in RerankScores :
        /\ ret.pc = "rank"
        /\ ret' = retrieve_rank(ret, scores)
        /\ UNCHANGED <<mrg, notRetVars>>

NextRetrieve == RetrieveStart \/ RetrieveSearch \/ RetrieveRank

SpecRetrieve == Init /\ [][NextRetrieve]_vars

\* the arguments of a call of _hybrid_merge that has not been made yet
MergeInputs ==
    {[NoMerge EXCEPT !.vector_results = vector_results, !.bm25_results = bm25_results] :
        vector_results \in SearchResults(VectorScores \cup {500}),
        bm25_results \in SearchResults(Bm25Scores \cup {400})}

HybridMerge ==
    /\ ~mrg.called
    /\ mrg' = [mrg EXCEPT !.called = TRUE,
                          !.hybrid_results = _hybrid_merge(mrg.vector_results,
                                                           mrg.bm25_results,
                                                           HYBRID_ALPHA)]
    /\ UNCHANGED <<ret, notRetVars>>

NextMerge == HybridMerge

InitMerge ==
    /\ now = 0 /\ InitDocs /\ InitReg /\ InitTok /\ InitCred /\ InitAgent /\ InitRag
    /\ InitSto
    /\ ret = NoRetrieval
    /\ mrg \in MergeInputs
    /\ InitMig

SpecMerge == InitMerge /\ [][NextMerge]_vars

\* the migrations, one statement at a time, and the application's inserts
\* between them
Idle == mig.direction = "none"

AlembicUpgrade ==
    \E revision \in Children(db.version) :
        /\ Idle
        /\ mig' = alembic_upgrade(db, revision)
        /\ UNCHANGED <<db, notMigVars>>

AlembicDowngrade ==
    /\ Idle
    /\ db.version # "None"
    /\ mig' = alembic_downgrade(db)
    /\ UNCHANGED <<db, notMigVars>>

MigrationStatement ==
    /\ ~Idle /\ ~mig.failed /\ mig.ops # <<>>
    /\ IF Fails(db, Head(mig.ops))
       THEN mig' = [mig EXCEPT !.failed = TRUE] /\ UNCHANGED db
       ELSE mig' = [mig EXCEPT !.ops = Tail(@)] /\ db' = Apply(db, Head(mig.ops))
    /\ UNCHANGED notMigVars

MigrationDone ==
    /\ ~Idle /\ ~mig.failed /\ mig.ops = <<>>
    /\ db' = [db EXCEPT !.version = VersionAfter(mig)]
    /\ mig' = NoMigration
    /\ UNCHANGED notMigVars

\* the script runs in one transaction and TRUNCATE locks the table until it
\* ends, so the inserts come between the scripts
InsertChunk ==
    \E dimension \in Dimensions :
        /\ Idle
        /\ db' = insert_chunk(db, dimension)
        /\ UNCHANGED <<mig, notMigVars>>

NextMigrate ==
    AlembicUpgrade \/ AlembicDowngrade \/ MigrationStatement \/ MigrationDone \/ InsertChunk

SpecMigrate == Init /\ [][NextMigrate]_vars

(***************************************************************************)
(* Properties of the document lifecycle                                    *)
(***************************************************************************)
StatusSteps ==
    { <<"pending", "processing">>, <<"processing", "completed">>,
      <<"processing", "failed">> }

C2_TerminatedRunLeavesTerminalStatus ==
    \A d \in DOMAIN runs :
        (runs[d].pc = "done" /\ d \in DOMAIN documents)
            => documents[d].status \in {"completed", "failed"}

\* C6: a task is scheduled only by a request that has saved the file and
\* committed the row in status pending, exactly once per document and with a
\* fresh session of its own; the request that schedules it answers 201 with
\* status pending, and no step of an ingestion run changes a response.
C6_UploadThenSchedule ==
    /\ [][\A d \in DOMAIN runs' \ DOMAIN runs :
            /\ d \in DOMAIN documents' \ DOMAIN documents
            /\ documents'[d].status = "pending"
            /\ documents'[d].storage_key \in files'
            /\ runs'[d].pc = "queued" /\ ~runs'[d].broken /\ runs'[d].pending = {}
            /\ nTasks'[d] = 1
            /\ resp'.op = "upload" /\ resp'.code = 201 /\ resp'.doc = d
            /\ resp'.status = "pending"]_vars
    /\ [][(resp' # resp /\ resp'.op = "upload" /\ resp'.code = 201)
            => resp'.doc \in DOMAIN runs' \ DOMAIN runs]_vars
    /\ [][(\E d \in DOMAIN runs \cap DOMAIN runs' : runs'[d] # runs[d])
            => resp' = resp]_vars
    /\ [](\A d \in DOMAIN nTasks : nTasks[d] = 1)

\* the last response is the 201 of an upload whose ingestion has failed since
C6_Witness ==
    /\ resp.op = "upload" /\ resp.code = 201 /\ resp.status = "pending"
    /\ resp.doc \in DOMAIN documents
    /\ documents[resp.doc].status = "failed"
    /\ runs[resp.doc].pc = "done"

(***************************************************************************)
(* Properties of tenant isolation and of upload validation                 *)
(***************************************************************************)
\* the principal of the request a response answers
Caller(r) == get_current_user(r.cred, now)

\* the request is made with tenant B's token and names a document of another
\* tenant
CrossTenant(r) ==
    /\ Caller(r).ok
    /\ Caller(r).user.tenant_id # 0
    /\ r.doc \in DOMAIN documents
    /\ documents[r.doc].tenant_id # Caller(r).user.tenant_id

UploadAllowed(r) ==
    /\ Caller(r).ok
    /\ Caller(r).user.role \in {"member", "admin", "owner"}
    /\ Lower(Suffix(r.filename)) \in
           { <<".", "p", "d", "f">>, <<".", "c", "s", "v">>, <<".", "m", "d">>,
             <<".", "t", "x", "t">>, <<".", "d", "o", "c", "x">> }
    /\ 0 < r.size
    /\ r.size <= 10 * 1024 * 1024

\* C5: an upload is rejected (401, 403 or 400) exactly when the caller is not
\* authenticated with role member or higher, or the lower-cased extension is
\* not an allowed one, or the size is not in 1..10 MiB; a request that passes
\* is stored (201) unless the storage backend or the database fails (500); a
\* rejected upload creates no row, stores no file and schedules no task.
C5_UploadValidation ==
    /\ [](resp.op = "upload"
            => /\ resp.code \in {201, 400, 401, 403, 500}
               /\ resp.code \in {201, 500} <=> UploadAllowed(resp)
               /\ resp.code = 401 <=> ~Caller(resp).ok
               /\ resp.code = 403 <=> (Caller(resp).ok /\
                      Caller(resp).user.role \notin {"member", "admin", "owner"}))
    /\ [][(resp' # resp /\ resp'.op = "upload" /\ resp'.code \in {400, 401, 403})
            => UNCHANGED <<documents, chunks, files, runs, nTasks, nextDocId>>]_vars

\* a file of exactly 10 MiB with an upper-case extension has been stored, and
\* the next upload was rejected for its size
C5_Witness ==
    /\ resp.op = "upload" /\ resp.code = 400 /\ resp.size > MaxUploadBytes
    /\ \E d \in DOMAIN documents :
           /\ documents[d].file_type = <<"p", "d", "f">>
           /\ documents[d].filename # Lower(documents[d].filename)

(***************************************************************************)
(* Properties of registration and tenant creation                          *)
(***************************************************************************)
\* C7: a register request that finds its email registered, by its lookup or by
\* the unique index at its insert, is answered 400 "Email already registered".
C7_DuplicateEmailAnswered400 ==
    \A r \in DOMAIN reqs :
        (reqs[r].op = "register" /\ reqs[r].pc = "done" /\ reqs[r].dup)
            => (reqs[r].code = 400 /\ reqs[r].detail = "Email already registered")

\* no answered duplicate has left a user, a tenant or a membership behind, and
\* no two users share an email
DuplicateEmailCreatesNothing ==
    /\ \A r \in DOMAIN reqs :
           (reqs[r].pc = "done" /\ reqs[r].dup)
               => /\ reqs[r].user_id \notin DOMAIN users
                  /\ reqs[r].tenant_id \notin DOMAIN tenants
    /\ \A u1, u2 \in DOMAIN users : users[u1].email = users[u2].email => u1 = u2

\* C8: two answered requests whose base slug is the same have both succeeded,
\* with distinct slugs.
C8_CollidingRequestsBothSucceed ==
    \A r1, r2 \in DOMAIN reqs :
        (/\ r1 # r2
         /\ reqs[r1].pc = "done" /\ reqs[r2].pc = "done"
         /\ reqs[r1].slug_base # <<>>
         /\ reqs[r1].slug_base = reqs[r2].slug_base)
            => /\ reqs[r1].code = 201 /\ reqs[r2].code = 201
               /\ reqs[r1].tenant_slug # reqs[r2].tenant_slug

\* no two tenants share a slug
SlugsUnique == \A t1, t2 \in DOMAIN tenants : tenants[t1].slug = tenants[t2].slug => t1 = t2

\* a created tenant has its base slug, or base-k with base and every base-j,
\* j < k, in use
SmallestFreeSlug ==
    \A r \in DOMAIN reqs :
        (reqs[r].pc = "done" /\ reqs[r].code = 201)
            => \/ reqs[r].tenant_slug = reqs[r].slug_base
               \/ \E k \in 1..MaxReqs :
                     /\ reqs[r].tenant_slug = NumberedSlug(reqs[r].slug_base, k)
                     /\ TenantsBySlug(reqs[r].slug_base) # {}
                     /\ \A j \in 1..(k - 1) :
                            TenantsBySlug(NumberedSlug(reqs[r].slug_base, j)) # {}

(***************************************************************************)
(* Properties of the role gate and of token types                          *)
(***************************************************************************)
\* the level of a role: owner 4 > admin 3 > member 2 > viewer 1, any other 0
Level(r) ==
    CASE r = "owner" -> 4 [] r = "admin" -> 3 [] r = "member" -> 2 [] r = "viewer" -> 1
      [] OTHER -> 0

\* C4: for an authenticated principal with role u, the gate require_role(r), r
\* one of the four roles, returns the principal unchanged iff level(u) >=
\* level(r) and answers 403 otherwise; a role that is none of the four fails
\* every gate.
C4_RoleGate ==
    (authResp.op = "gate" /\ get_current_user(authResp.cred, authResp.at).ok)
        => LET principal == get_current_user(authResp.cred, authResp.at).user IN
           /\ authResp.ok <=> Level(principal.role) >= Level(authResp.required)
           /\ authResp.ok => (authResp.user = principal /\ authResp.code = 200)
           /\ ~authResp.ok => authResp.code = 403
           /\ principal.role \notin Roles => ~authResp.ok

\* an admin has passed the gate that requires admin
C4_Witness ==
    /\ authResp.op = "gate" /\ authResp.ok
    /\ authResp.required = "admin" /\ authResp.user.role = "admin"

\* C9: a token minted by create_refresh_token is answered 401 by every
\* role-gated route, a token minted by create_access_token is answered 401 by
\* the refresh endpoint, and a minted token's type is its minting function's,
\* whatever type the caller's claims carry.
C9_TokenTypes ==
    /\ tok.by \in {"access", "refresh"} => tok.cred.payload.type = tok.by
    /\ (authResp.op = "gate" /\ authResp.by = "refresh") => authResp.code = 401
    /\ (authResp.op = "refresh" /\ authResp.by = "access") => authResp.code = 401

\* the refresh endpoint has turned down, for its type, a valid access token
\* of a registered user that was minted from claims carrying type "refresh"
C9_Witness ==
    /\ authResp.op = "refresh" /\ authResp.by = "access" /\ authResp.cred = tok.cred
    /\ authResp.code = 401 /\ authResp.detail = "Invalid token type"
    /\ "type" \in DOMAIN tok.data /\ tok.data.type = "refresh"
    /\ tok.data.sub \in DOMAIN users

(***************************************************************************)
(* Properties of the tenant credentials                                    *)
(***************************************************************************)
SamePair(o1, o2) ==
    /\ credOps[o1].tenant_id = credOps[o2].tenant_id
    /\ credOps[o1].integration_type = credOps[o2].integration_type

\* C10: no two rows of tenant_credentials have the same tenant and
\* integration type; a save that commits while its pair has a row inserts no
\* row, and when it succeeds it is that row, under its id, that holds the new
\* ciphertext and is active; of two first saves of a pair that overlap only
\* one succeeds, and one row is left.
C10_OneRowPerIntegration ==
    /\ [](\A c1, c2 \in DOMAIN tenant_credentials :
            (/\ tenant_credentials[c1].tenant_id = tenant_credentials[c2].tenant_id
             /\ tenant_credentials[c1].integration_type =
                    tenant_credentials[c2].integration_type)
                => c1 = c2)
    /\ [][\A o \in DOMAIN credOps :
            (/\ credOps[o].op = "save" /\ credOps[o].pc = "commit"
             /\ credOps'[o].pc = "done"
             /\ CredentialRows(credOps[o].tenant_id, credOps[o].integration_type) # {})
                => /\ DOMAIN tenant_credentials' = DOMAIN tenant_credentials
                   /\ credOps'[o].result = "saved"
                          => LET c == credOps'[o].id IN
                             /\ c \in CredentialRows(credOps[o].tenant_id,
                                                     credOps[o].integration_type)
                             /\ decrypt(tenant_credentials'[c]
                                        .encrypted_credentials.encrypted_data) =
                                    Decrypted(credOps[o].credentials)
                             /\ tenant_credentials'[c].is_active = "active"]_vars
    /\ [](\A o1, o2 \in DOMAIN credOps :
            (/\ o1 # o2 /\ SamePair(o1, o2)
             /\ \A o \in {o1, o2} : /\ credOps[o].op = "save" /\ credOps[o].pc = "done"
                                    /\ credOps[o].existing = 0
             /\ credOps[o1].result = "saved"
             /\ \A o \in DOMAIN credOps : credOps[o].op = "delete" => ~SamePair(o, o1))
                => /\ credOps[o2].result # "saved"
                   /\ Cardinality(CredentialRows(credOps[o1].tenant_id,
                                                 credOps[o1].integration_type)) = 1)

\* two first saves of one pair have overlapped: one has inserted the row, the
\* other was stopped by the unique constraint
C10_Witness ==
    \E o1, o2 \in DOMAIN credOps :
        /\ o1 # o2 /\ SamePair(o1, o2)
        /\ credOps[o1].op = "save" /\ credOps[o1].existing = 0
        /\ credOps[o1].result = "saved"
        /\ credOps[o2].op = "save" /\ credOps[o2].existing = 0
        /\ credOps[o2].exc = "IntegrityError"
        /\ Cardinality(CredentialRows(credOps[o1].tenant_id,
                                      credOps[o1].integration_type)) = 1

(***************************************************************************)
(* Properties of the agent routes                                          *)
(***************************************************************************)
\* the call passed the gate of its route
Admitted(call) == call.route # "none" /\ call.code \notin {401, 403}

\* the dict saved for the call's tenant and integration at the time of the call
SavedDict(call) ==
    LET row == CHOOSE x \in call.stored : TRUE
    IN decrypt(row.encrypted_data).value

JiraValues(d) == <<Get(d, JIRA_URL), Get(d, JIRA_EMAIL), Get(d, JIRA_API_TOKEN)>>

SmtpValues(d) == <<Get(d, SMTP_HOST), Get(d, SMTP_USER), Get(d, SMTP_PASSWORD)>>

JiraSettings == <<settings.JIRA_URL, settings.JIRA_EMAIL, settings.JIRA_API_TOKEN>>

SmtpSettings == <<settings.SMTP_HOST, settings.SMTP_USER, settings.SMTP_PASSWORD>>

\* C11: the Jira configuration a ticket-creation call uses is the decrypted
\* credentials of the caller's tenant if and only if credentials for (tenant,
\* jira) are saved at the time of the call, and the process-wide settings
\* otherwise; what another tenant saved is never used.
C11_JiraConfigFollowsSavedCredentials ==
    (agentResp.route = "jira-ticket" /\ Admitted(agentResp))
        => IF agentResp.stored # {}
           THEN /\ agentResp.source = "tenant"
                /\ agentResp.config = JiraValues(SavedDict(agentResp))
           ELSE /\ agentResp.source = "settings"
                /\ agentResp.config = JiraSettings

\* What the code does keep: the tenant's values are used exactly when
\* get_credentials returned a dict that is not empty, and they are the values
\* saved for the caller's own tenant
JiraConfigFollowsGetCredentials ==
    (agentResp.route \in {"jira-ticket", "jira-test"} /\ Admitted(agentResp))
        => IF agentResp.stored # {} /\ SavedDict(agentResp) # <<>>
           THEN /\ agentResp.source = "tenant"
                /\ agentResp.config = JiraValues(SavedDict(agentResp))
                /\ agentResp.tenant_id =
                       get_current_user(agentResp.cred, now).user.tenant_id
           ELSE /\ agentResp.source = "settings"
                /\ agentResp.config = JiraSettings

\* the call was answered "not configured"
NotConfigured(call) ==
    \/ call.code = 400 /\ call.detail \in {"Jira credentials not configured",
                                          "SMTP credentials not configured"}
    \/ call.status = "not_configured"

\* one of the two sources of the call holds a complete credential set
SomeSourceComplete(call) ==
    IF call.integration_type = "jira"
    THEN \/ All(JiraSettings)
         \/ call.stored # {} /\ All(JiraValues(SavedDict(call)))
    ELSE \/ All(SmtpSettings)
         \/ call.stored # {} /\ All(SmtpValues(SavedDict(call)))

\* C12: send-email, jira-ticket and jira-test answer "not configured" exactly
\* when neither the tenant's saved credentials nor the process-wide settings
\* hold a complete credential set; when one of the two is complete the call
\* goes on, with a complete set.
C12_NotConfiguredIffNoCompleteSource ==
    (agentResp.route \in {"send-email", "jira-ticket", "jira-test"} /\ Admitted(agentResp))
        => /\ NotConfigured(agentResp) <=> ~SomeSourceComplete(agentResp)
           /\ ~NotConfigured(agentResp) => All(agentResp.config)

(***************************************************************************)
(* Properties of the credential encryption                                 *)
(***************************************************************************)
\* the stored value is what encrypt made of some dict under the service key
Intact(row) ==
    \E d \in CryptPayloads, iv \in 1..NumIvs : row.encrypted_data = encrypt(d, iv)

\* C13: decrypt(encrypt(p)) = p for every credentials dict a client can post
\* (string keys and values, the characters json.dumps escapes among them), and
\* when save_credentials(t, i, p) has committed, what is stored for (t, i) is
\* encrypt(p); get_credentials(t, i) returns the dict whose ciphertext is
\* stored, never another one, whenever its select succeeds, and None when the
\* stored value is damaged or was made under another key.
C13_EncryptionRoundTrip ==
    /\ [](\A d \in CryptPayloads, iv \in 1..NumIvs :
            decrypt(encrypt(d, iv)) = Decrypted(d))
    /\ [][\A o \in DOMAIN credOps :
            (/\ credOps[o].op = "save" /\ credOps[o].pc = "commit"
             /\ credOps'[o].result = "saved")
                => \E iv \in 1..NumIvs :
                     StoredCredentials(credOps[o].tenant_id, credOps[o].integration_type)' =
                        {[encrypted_data |-> encrypt(credOps[o].credentials, iv)]}]_vars
    /\ [](agentResp.route = "get_credentials"
            => /\ agentResp.tenant_creds.present
                    => \E row \in agentResp.stored, iv \in 1..NumIvs :
                            row.encrypted_data = encrypt(agentResp.tenant_creds.value, iv)
               /\ (agentResp.dbOk /\ \E row \in agentResp.stored : Intact(row))
                    => agentResp.tenant_creds.present
               /\ (\A row \in agentResp.stored : ~Intact(row))
                    => agentResp.tenant_creds = Absent)

\* a dict with a quote and a backslash was saved, its stored ciphertext was
\* damaged or replaced, and get_credentials answered None for it
C13_Witness ==
    /\ agentResp.route = "get_credentials"
    /\ agentResp.stored # {}
    /\ \A row \in agentResp.stored : ~Intact(row)
    /\ agentResp.tenant_creds = Absent
    /\ \E o \in DOMAIN credOps :
        /\ credOps[o].result = "saved"
        /\ credOps[o].credentials = QuotedPayload
        /\ credOps[o].tenant_id = agentResp.tenant_id
        /\ credOps[o].integration_type = agentResp.integration_type

(***************************************************************************)
(* Properties of the RAG routes                                            *)
(***************************************************************************)
\* the stream of the last /rag/query-stream request has ended
StreamEnded == rag.route = "query-stream" /\ rag.code = 200 /\ rag.pc = "closed"

\* the positions of the frames of one type
FramesOfType(type) == {i \in 1..Len(rag.frames) : rag.frames[i].type = type}

\* token frames, one sources frame, the terminator
TokensSourcesDone ==
    LET n == Len(rag.frames) IN
    /\ n >= 2
    /\ FramesOfType("token") = 1..(n - 2)
    /\ rag.frames[n - 1].type = "sources"
    /\ rag.frames[n] = DoneFrame

\* C14: a /rag/query-stream response in which no exception occurred consists
\* of zero or more token frames, then exactly one sources frame, then the
\* [DONE] frame, whether or not retrieval returned a chunk.
C14_StreamTokensSourcesDone == (StreamEnded /\ ~rag.raised) => TokensSourcesDone

\* What the code does keep: the order holds whenever retrieval returned a chunk
StreamWithChunksTokensSourcesDone ==
    (StreamEnded /\ ~rag.raised /\ rag.chunks > 0) => TokensSourcesDone

\* C15: a /rag/query-stream response ends with exactly one [DONE] frame, with
\* nothing after it; when an exception occurred before it there is exactly
\* one error frame, immediately before the terminator, and none otherwise.
C15_StreamEndsWithDone ==
    /\ [](rag.route = "query-stream"
            => LET n == Len(rag.frames) IN
               /\ FramesOfType("[DONE]") \subseteq {n}
               /\ FramesOfType("[DONE]") # {} <=> StreamEnded
               /\ FramesOfType("error") \subseteq {n - 1, n}
               /\ Cardinality(FramesOfType("error")) <= 1
               /\ n \in FramesOfType("error") => rag.pc = "done"
               /\ (StreamEnded /\ rag.raised) => FramesOfType("error") = {n - 1}
               /\ ~rag.raised => FramesOfType("error") = {})
    /\ [][(rag.route = "query-stream" /\ rag.pc = "done" /\ rag' # rag)
            => (rag'.frames = Append(rag.frames, DoneFrame) /\ StreamEnded')]_vars
    /\ [][(StreamEnded /\ rag'.frames # rag.frames) => rag'.frames = <<>>]_vars

\* the LLM failed after a token was sent: token, error, terminator
C15_Witness ==
    /\ StreamEnded /\ rag.raised
    /\ rag.frames = <<TokenFrame("llm"), ErrorFrame, DoneFrame>>

\* C16: a request of /rag/query or /rag/query-stream whose query the
\* conversational detector classifies as conversational performs no retrieval
\* and no LLM call and is answered with one of the canned replies.
C16_ConversationalQuerySkipsRetrieval ==
    (/\ rag.route \in {"query", "query-stream"} /\ rag.code = 200 /\ rag.pc = "closed"
     /\ _is_conversational_query(rag.query))
        => /\ rag.retrievals = 0 /\ rag.llm_calls = 0
           /\ rag.route = "query" => rag.answer \in ConversationalReplies
           /\ rag.route = "query-stream"
                => \E reply \in ConversationalReplies :
                       rag.frames = <<TokenFrame(reply), DoneFrame>>

(***************************************************************************)
(* Properties of the answer engine                                         *)
(***************************************************************************)
\* the mean score of the first min(3, n) chunks is at least 0.4
TopMeanAtLeast(scored, hundredths) ==
    \E k \in 1..3 :
        /\ k = (IF Len(scored) < 3 THEN Len(scored) ELSE 3)
        /\ SumScores([i \in 1..k |-> ChunkScore(scored[i])]) >= hundredths * k

\* C17: generate_answer and generate_answer_stream call the LLM only if the
\* query is not conversational, the chunk list is not empty and the mean score
\* of its first min(3, n) chunks is at least 0.4; otherwise they make no LLM
\* call and return a fixed reply: the conversational one when the query is
\* conversational or has at most 3 words, else the not-found message.
C17_LlmOnlyOnRelevantChunks ==
    ans.fn # "none"
        => LET usable == /\ ~_is_conversational_query(ans.query)
                         /\ ans.chunks # <<>>
                         /\ TopMeanAtLeast(ans.chunks, 40)
           IN /\ ans.llm_calls > 0 => usable
              /\ ~usable
                   => /\ ans.llm_calls = 0 /\ ~ans.raised
                      /\ ans.reply =
                           IF \/ _is_conversational_query(ans.query)
                              \/ WordCount(Strip(ans.query)) <= 3
                           THEN _generate_conversational_response(ans.query)
                           ELSE NotFoundReply(ans.fn)

\* a question came with four chunks whose first three have a mean below 0.4
\* and whose fourth lifts the mean of all four above it: the stream answered
\* with the not-found message and made no LLM call
C17_Witness ==
    /\ ans.fn = "generate_answer_stream"
    /\ ans.query = QueryQuestion
    /\ ans.chunks = <<Scored(30), Unscored, Scored(40), Scored(90)>>
    /\ ans.llm_calls = 0
    /\ ans.reply = NotFoundReply("generate_answer_stream")

(***************************************************************************)
(* Properties of document deletion and of storage keys                     *)
(***************************************************************************)
\* the step answers a delete_document request with 204
DeleteSucceeds == resp' # resp /\ resp'.op = "delete" /\ resp'.code = 204

\* C18: when delete_document answers 204 the document was one of the caller's
\* tenant, and its row and every chunk with its document_id are gone, whether
\* the stored file was deleted, was already missing or its deletion failed;
\* no chunk is ever left, or added later, for a document that is gone.
C18_DeleteRemovesRowAndChunks ==
    /\ [][DeleteSucceeds
            => /\ resp'.doc \in DOMAIN documents
               /\ documents[resp'.doc].tenant_id = Caller(resp').user.tenant_id
               /\ resp'.doc \notin DOMAIN documents'
               /\ \A c \in chunks' : c.document_id # resp'.doc
               /\ resp'.file \in {"deleted", "missing", "raised"}
               /\ resp'.file = "deleted" => resp'.storage_key \notin files'
               /\ resp'.file = "raised" => files' = files]_vars
    /\ [](\A c \in chunks : c.document_id \in DOMAIN documents)
    /\ [][\A d \in DOMAIN documents \ DOMAIN documents' :
            /\ DeleteSucceeds
            /\ resp'.doc = d]_vars

\* a document whose ingestion had completed, with chunks, and whose file had
\* disappeared since, was deleted
C18_Witness ==
    /\ resp.op = "delete" /\ resp.code = 204 /\ resp.file = "missing"
    /\ resp.doc \in DOMAIN runs
    /\ runs[resp.doc].pc = "done" /\ runs[resp.doc].exc = "none"
    /\ runs[resp.doc].n > 0
    /\ resp.doc \notin DOMAIN documents
    /\ \A c \in chunks : c.document_id # resp.doc

\* the step is an upload that has saved its file under the key it generated
UploadSaves == resp'.op = "upload" /\ nextDocId' = nextDocId + 1

\* C19: the key generate_storage_key returns for an upload is the key of no
\* document stored before, also for the same tenant and the same filename: an
\* upload never writes over the stored file of another document and never
\* fails on the unique constraint of storage_key.
C19_StorageKeysNeverCollide ==
    [][UploadSaves
        => /\ resp'.storage_key \notin StorageKeys
           /\ resp'.storage_key \notin files]_vars

\* What the code does keep: no two documents have the same storage key, and
\* an upload whose key is taken creates no document
StorageKeysUnique ==
    /\ [](\A d1, d2 \in DOMAIN documents :
            documents[d1].storage_key = documents[d2].storage_key => d1 = d2)
    /\ [][(UploadSaves /\ resp'.storage_key \in StorageKeys)
            => (resp'.code = 500 /\ documents' = documents)]_vars

(***************************************************************************)
(* Properties of the local storage backend                                 *)
(***************************************************************************)
\* C20: after save_file(bytes, k) has returned, file_exists(k) is true and
\* the bytes stored under k are the input; after delete_file(k) has returned
\* true, file_exists(k) is false; delete_file of a key that does not exist
\* returns false and does not raise; and no call changes what is stored
\* under another key.
C20_StorageConsistentPerKey ==
    /\ []((stoResp.op = "save_file" /\ ~stoResp.raised)
            => /\ file_exists(stoResp.storage_key, disk)
               /\ StoredUnder(stoResp.storage_key, disk) =
                      [present |-> TRUE, bytes |-> stoResp.bytes])
    /\ []((stoResp.op = "delete_file" /\ stoResp.result)
            => ~file_exists(stoResp.storage_key, disk))
    /\ []((stoResp.op = "delete_file" /\ ~stoResp.existed)
            => (~stoResp.result /\ ~stoResp.raised))
    /\ [][\A k \in KeyInputs :
            k # stoResp'.storage_key
                => StoredUnder(k, disk') = StoredUnder(k, disk)]_vars

\* the keys name the same path, or the same file on the disk
SameFile(k1, k2, d) ==
    \/ get_file_path(k1) = get_file_path(k2)
    \/ /\ Walk(get_file_path(k1), <<>>, d).ok
       /\ Walk(get_file_path(k1), <<>>, d) = Walk(get_file_path(k2), <<>>, d)

\* What the code does keep: the calls are consistent on their own key, and a
\* call changes nothing under a key that names another file
StorageConsistentPerFile ==
    /\ []((stoResp.op = "save_file" /\ ~stoResp.raised)
            => /\ file_exists(stoResp.storage_key, disk)
               /\ StoredUnder(stoResp.storage_key, disk) =
                      [present |-> TRUE, bytes |-> stoResp.bytes])
    /\ []((stoResp.op = "delete_file" /\ stoResp.result)
            => ~file_exists(stoResp.storage_key, disk))
    /\ []((stoResp.op = "delete_file" /\ ~stoResp.existed)
            => (~stoResp.result /\ ~stoResp.raised))
    /\ [][\A k \in KeyInputs :
            ~SameFile(k, stoResp'.storage_key, disk')
                => StoredUnder(k, disk') = StoredUnder(k, disk)]_vars

(***************************************************************************)
(* Properties of the retrieval pipeline                                    *)
(***************************************************************************)
\* the results are in descending order of a field
Descending(results, field) ==
    \A i, j \in 1..Len(results) : i < j => results[i][field] >= results[j][field]

\* the retrieval has returned its results
Retrieved == ret.pc = "done" /\ ~ret.raised /\ ret.queries > 0

\* every result passed the threshold with the best score observed for its
\* chunk, no chunk is returned twice, and there are at most top_k results
ThresholdDedupTopK ==
    /\ \A i \in 1..Len(ret.final_results) :
          LET c == ret.final_results[i] IN
          /\ c.score >= 300
          /\ <<c.id, c.score>> \in ret.observed
          /\ \A o \in ret.observed : o[1] = c.id => o[2] <= c.score
    /\ \A i, j \in 1..Len(ret.final_results) :
          ret.final_results[i].id = ret.final_results[j].id => i = j
    /\ Len(ret.final_results) <= ret.top_k

\* C21 as stated: whatever the flags, every returned chunk has a merged score
\* of at least 0.3, the maximum of its scores under the query variants, no
\* chunk id appears twice, at most top_k chunks are returned, and they are in
\* descending order of that score.
C21_RetrieveOrderedByScore ==
    Retrieved => (ThresholdDedupTopK /\ Descending(ret.final_results, "score"))

\* C21 amended: the same, but the order is that of the re-ranker's scores when
\* re-ranking is asked for, a re-ranker is loaded and its prediction succeeds,
\* and that of the merged scores otherwise.
C21_RetrieveOrderedByFinalScore ==
    Retrieved
        => /\ ThresholdDedupTopK
           /\ ret.reranked => (ret.use_reranking /\ ret.reranker)
           /\ IF ret.reranked
              THEN Descending(ret.final_results, "rerank_score")
              ELSE Descending(ret.final_results, "score")

\* three query variants were searched, a chunk was found under several of them
\* with different scores, and the re-ranker put a chunk with a lower merged
\* score first
C21_Witness ==
    /\ Retrieved /\ ret.queries = 3 /\ ret.reranked
    /\ Len(ret.final_results) = 2
    /\ ret.final_results[1].score < ret.final_results[2].score
    /\ \E o1, o2 \in ret.observed : o1[1] = o2[1] /\ o1[2] < o2[2]

\* the score a list of results gives a chunk, 0 when it does not have it
SideScore(results, id) ==
    LET found == {k \in 1..Len(results) : results[k].id = id}
    IN IF found = {} THEN 0 ELSE results[CHOOSE k \in found : TRUE].score

\* C22: _hybrid_merge returns exactly one record for each chunk id of the
\* union of the two lists, with score 0.7 * vector score + 0.3 * BM25 score, a
\* side that did not return the chunk counting 0, in descending score order.
C22_HybridMergeScores ==
    mrg.called
        => LET ids == ResultIds(mrg.vector_results) \cup ResultIds(mrg.bm25_results)
               merged == mrg.hybrid_results
           IN /\ ResultIds(merged) = ids
              /\ Len(merged) = Cardinality(ids)
              /\ \A i \in 1..Len(merged) :
                    10 * merged[i].score =
                        7 * SideScore(mrg.vector_results, merged[i].id)
                        + 3 * SideScore(mrg.bm25_results, merged[i].id)
              /\ Descending(merged, "score")

\* the chunk with vector score 0.5 and BM25 score 0.4 has 0.47, and a chunk
\* found only by the vector search with 0.9 has 0.63 and comes first
C22_Witness ==
    /\ mrg.called
    /\ Len(mrg.hybrid_results) = 2
    /\ mrg.hybrid_results[1].score = 630
    /\ mrg.hybrid_results[1].id \notin ResultIds(mrg.bm25_results)
    /\ mrg.hybrid_results[2].score = 470
    /\ mrg.hybrid_results[2].id \in ResultIds(mrg.bm25_results)

(***************************************************************************)
(* Properties of the migrations                                            *)
(***************************************************************************)
\* the schema state: tables, indexes and constraints, types, the embedding
\* dimension and the ef_construction of the HNSW index
Schema(d) ==
    [tables |-> d.tables, indexes |-> d.indexes, constraints |-> d.constraints,
     types |-> d.types, dimension |-> d.dimension, ef_construction |-> d.ef_construction]

RECURSIVE ApplyAll(_, _)
ApplyAll(d, ops) == IF ops = <<>> THEN d ELSE ApplyAll(Apply(d, Head(ops)), Tail(ops))

\* the empty database upgraded to a version, one script after the other
RECURSIVE UpgradedTo(_)
UpgradedTo(version) ==
    IF version = "None" THEN EmptyDatabase
    ELSE ApplyAll(UpgradedTo(DownRevision(version)), UpgradeOps(version))

\* the six scripts form one chain: one base, one head, and no revision revised
\* by two scripts or revising an unknown one
LinearChain ==
    /\ Cardinality(Revisions) = 6
    /\ Cardinality(Heads) = 1
    /\ Cardinality(Children("None")) = 1
    /\ \A r \in Revisions :
          /\ Cardinality(Children(r.revision)) <= 1
          /\ r.down_revision = "None" \/ \E x \in Revisions : x.revision = r.down_revision

RowsHaveDeclaredDimension == \A row \in db.rows : row = db.dimension

\* C30: at every step of every migration, in both directions, all chunk rows
\* have embeddings of the declared dimension: a change of the dimension
\* happens with the HNSW index dropped and the chunks emptied, and the index
\* is recreated before the migration ends; no statement raises.
C30_RowsMatchDimensionAtEveryStep ==
    /\ [](RowsHaveDeclaredDimension /\ ~mig.failed)
    /\ [][(db.dimension # 0 /\ db'.dimension # 0 /\ db'.dimension # db.dimension)
            => /\ HnswIndex \notin IndexNames(db)
               /\ db.rows = {}]_vars
    /\ []((Idle /\ db.dimension # 0) => HnswIndex \in IndexNames(db))

\* the upgrade to 768 runs on a table with rows of 384-dimension embeddings:
\* it has dropped the index and is about to empty the table
C30_Witness ==
    /\ mig.revision = "004_768_emb" /\ mig.direction = "upgrade" /\ Len(mig.ops) = 3
    /\ db.dimension = 384 /\ db.rows = {384}
    /\ HnswIndex \notin IndexNames(db)

(***************************************************************************)
(* Properties of the rows register and create_tenant commit                *)
(***************************************************************************)
\* the request has just been answered
Answered(r) == r \in DOMAIN reqs /\ reqs[r].pc # "done" /\ reqs'[r].pc = "done"

\* the user, the tenant and the owner membership of a register request
OwnerMembership(q) ==
    {m \in memberships : m.user_id = q.user_id /\ m.tenant_id = q.tenant_id /\ m.role = "owner"}

EveryUserHasMembership == \A u \in DOMAIN users : \E m \in memberships : m.user_id = u

EveryTenantHasOwner ==
    \A t \in DOMAIN tenants : \E m \in memberships : m.tenant_id = t /\ m.role = "owner"

\* C24: a register call commits all three of a new user, a new tenant and the
\* owner membership that links them, or none of them; so in every state each
\* user has a membership and each tenant has an owner, and the access token of
\* a successful register carries that tenant and the role owner.
C24_RegisterAllOrNothing ==
    /\ [](EveryUserHasMembership /\ EveryTenantHasOwner)
    /\ [](\A r \in DOMAIN reqs :
            (reqs[r].op = "register" /\ reqs[r].pc = "done")
                => IF reqs[r].code = 201
                   THEN /\ reqs[r].user_id \in DOMAIN users
                        /\ reqs[r].tenant_id \in DOMAIN tenants
                        /\ OwnerMembership(reqs[r]) # {}
                        /\ reqs[r].access_token.payload.sub = reqs[r].user_id
                        /\ reqs[r].access_token.payload.tenant_id = reqs[r].tenant_id
                        /\ reqs[r].access_token.payload.role = "owner"
                   ELSE /\ reqs[r].user_id \notin DOMAIN users
                        /\ reqs[r].tenant_id \notin DOMAIN tenants
                        /\ OwnerMembership(reqs[r]) = {})
    /\ [][\A r \in DOMAIN reqs :
            (reqs[r].op = "register" /\ Answered(r))
                => IF reqs'[r].code = 201
                   THEN /\ DOMAIN users' = DOMAIN users \cup {reqs[r].user_id}
                        /\ DOMAIN tenants' = DOMAIN tenants \cup {reqs[r].tenant_id}
                        /\ reqs[r].user_id \notin DOMAIN users
                        /\ reqs[r].tenant_id \notin DOMAIN tenants
                        /\ Cardinality(memberships') = Cardinality(memberships) + 1
                   ELSE UNCHANGED <<users, tenants, memberships>>]_vars
    /\ [][users' # users => \E r \in DOMAIN reqs : reqs[r].op = "register" /\ Answered(r)]_vars

\* one register was committed and answered 201, another one had inserted its
\* user and its tenant when its commit failed: it left nothing
C24_Witness ==
    \E r1, r2 \in DOMAIN reqs :
        /\ reqs[r1].op = "register" /\ reqs[r1].pc = "done" /\ reqs[r1].code = 201
        /\ reqs[r2].op = "register" /\ reqs[r2].pc = "done" /\ reqs[r2].code = 500
        /\ reqs[r2].user_id # 0 /\ reqs[r2].tenant_id # 0
        /\ reqs[r2].user_id \notin DOMAIN users
        /\ Cardinality(DOMAIN users) = 1

(***************************************************************************)
(* Properties of the tenant a login or a refresh issues a token for        *)
(***************************************************************************)
\* login or refresh has just issued an access token
Issued ==
    /\ authResp' # authResp
    /\ authResp'.op \in {"login", "refresh"}
    /\ authResp'.ok

\* the membership is the user's and none of the user's is more recent
MostRecent(rows, m, u) ==
    /\ m \in rows /\ m.user_id = u
    /\ \A m2 \in rows : m2.user_id = u => m2.created_at <= m.created_at

\* C28: the access token login or refresh issues carries the tenant and the
\* role of the user's membership with the most recent created_at; once a user
\* has created a tenant, that membership is the new tenant's, with role owner,
\* so the next login or refresh is scoped to it; and an access token issued
\* earlier keeps the tenant and the role it was issued with.
C28_TokenFollowsLatestMembership ==
    /\ [][Issued
            => LET p == authResp'.access_token.payload
               IN \E m \in memberships :
                     /\ MostRecent(memberships, m, p.sub)
                     /\ p.tenant_id = m.tenant_id /\ p.role = m.role]_vars
    /\ [][\A r \in DOMAIN reqs :
            (reqs[r].op = "create_tenant" /\ Answered(r) /\ reqs'[r].code = 201)
                => /\ \E m \in memberships' : MostRecent(memberships', m, reqs[r].caller)
                   /\ \A m \in memberships' :
                         MostRecent(memberships', m, reqs[r].caller)
                             => m.tenant_id = reqs[r].tenant_id /\ m.role = "owner"]_vars
    /\ [](tok.by = "login"
            => LET current == get_current_user(tok.cred, now)
               IN /\ current.ok
                  /\ current.user.tenant_id = tok.data.tenant_id
                  /\ current.user.role = tok.data.role)
    /\ [][(tok.by = "login" /\ tok' = tok)
            => get_current_user(tok.cred, now').user = get_current_user(tok.cred, now).user]_vars

\* a user logged in, created a tenant and refreshed: the new access token is
\* for the new tenant, with role owner, and the access token of the login is
\* still accepted for the first tenant
C28_Witness ==
    /\ tok.by = "login" /\ tok.data.sub = 1 /\ tok.data.tenant_id = 1
    /\ authResp.op = "refresh" /\ authResp.ok
    /\ authResp.access_token.payload.sub = 1
    /\ authResp.access_token.payload.tenant_id = 3
    /\ authResp.access_token.payload.role = "owner"
    /\ get_current_user(tok.cred, now).user.tenant_id = 1

(***************************************************************************)
(* Properties of the chunk loop of an ingestion run                        *)
(***************************************************************************)
\* the chunk_index values of the stored chunks of a document
StoredIndexes(d) == {c.chunk_index : c \in {x \in chunks : x.document_id = d}}

\* C25: when the embedding or the persisting of some chunks of a run fails,
\* the other chunks are still persisted, each with its own chunk_index, and
\* the run ends with status completed, never failed and never unfinished.
C25_ChunkFailuresAreSkipped ==
    \A d \in DOMAIN runs :
        /\ d \in DOMAIN documents => documents[d].status # "failed"
        /\ StoredIndexes(d) \subseteq 0..(runs[d].n - 1)
        /\ runs[d].pc = "done" => documents[d].status = "completed"

\* what holds: a run whose commits of chunks succeed ends completed, whichever
\* embeddings failed, with the chunks that were embedded
EmbeddingFailuresAreSkipped ==
    \A d \in DOMAIN runs :
        /\ d \in DOMAIN documents => documents[d].status # "failed"
        /\ StoredIndexes(d) \subseteq 0..(runs[d].n - 1)
        /\ (runs[d].pc = "done" /\ runs[d].exc = "none") => documents[d].status = "completed"
        /\ (runs[d].pc = "done" /\ runs[d].exc # "none")
              => (documents[d].status = "processing" /\ StoredIndexes(d) = {})

\* the embedding of chunk 0 failed, chunk 1 was stored and the run completed
EmbeddingFailureSkipped ==
    \E d \in DOMAIN runs :
        /\ runs[d].pc = "done" /\ runs[d].n = 2
        /\ StoredIndexes(d) = {1}
        /\ documents[d].status = "completed"

(***************************************************************************)
(* Properties of the failure paths of the mutating operations             *)
(***************************************************************************)
\* a request has just been answered 500
Failure(op) == resp' # resp /\ resp'.op = op /\ resp'.code = 500

\* C26: a mutating operation that fails rolls its transaction back before it
\* reports the error: an upload answered 500 has committed no row, a delete
\* answered 500 has removed none, and an ingestion run enters its except
\* branch with a session that takes the next statement and reports the
\* failure in the document's status.
C26_FailureRollsBack ==
    /\ [][Failure("upload") => UNCHANGED <<documents, chunks>>]_vars
    /\ [][Failure("delete") => UNCHANGED <<documents, chunks>>]_vars
    /\ [](\A d \in DOMAIN runs : runs[d].pc = "handler" => ~runs[d].broken)
    /\ [](\A d \in DOMAIN runs :
            (runs[d].pc = "done" /\ runs[d].exc # "none" /\ d \in DOMAIN documents)
                => documents[d].status = "failed")

\* what holds: a delete answered 500 has removed nothing (its except branch
\* rolls back)
FailedDeleteLeavesNothing == [][Failure("delete") => UNCHANGED <<documents, chunks>>]_vars

\* an upload was answered 500 and its row is committed, in status pending and
\* without a task
FailedUploadLeftRow ==
    /\ resp.op = "upload" /\ resp.code = 500
    /\ \E d \in DOMAIN documents :
          /\ documents[d].storage_key = resp.storage_key
          /\ documents[d].status = "pending"
          /\ d \notin DOMAIN runs

(***************************************************************************)
(* Properties of deletes that overlap an ingestion run                     *)
(***************************************************************************)
\* C27: in every state, also when delete_document runs while the document is
\* being ingested, the document_id of every chunk is the id of an existing
\* document: the run stores no chunk for a document that is gone, and no step
\* brings a deleted document back.
C27_ChunksOfExistingDocuments ==
    /\ [](\A c \in chunks : c.document_id \in DOMAIN documents)
    /\ [][\A c \in chunks' \ chunks :
            /\ c.document_id \in DOMAIN documents
            /\ c.document_id \in DOMAIN documents']_vars
    /\ [][\A d \in DOMAIN documents' \ DOMAIN documents :
            /\ d = nextDocId /\ nextDocId' = d + 1
            /\ d \notin DOMAIN runs
            /\ resp'.op = "upload"]_vars

\* the document was deleted while its run held embedded chunks that it had
\* not committed yet
C27_Witness ==
    \E d \in DOMAIN runs :
        /\ d \notin DOMAIN documents
        /\ runs[d].pc = "final"
        /\ runs[d].pending # {}

(***************************************************************************)
(* Properties of the streaming answer against the returned one             *)
(***************************************************************************)
\* the call under way was generate_answer_stream and did not reach the LLM
StreamWithoutLlm == ans.fn = "generate_answer_stream" /\ ans.llm_calls = 0

\* what generate_answer returns for the arguments of the call under way
Returned == generate_answer(ans.query, ans.chunks, ans.llmOk)

\* C29: for every query and chunk list that does not reach the LLM,
\* generate_answer_stream takes the branch generate_answer takes and yields,
\* one character per item, exactly the string generate_answer returns.
C29_StreamYieldsReturnedString ==
    StreamWithoutLlm
        => /\ Returned.llm_calls = 0
           /\ ans.reply = Returned.reply
           /\ ans.yielded = "chars"

\* what holds: the stream reaches the LLM exactly when generate_answer does,
\* and yields the conversational replies of generate_answer one character per
\* item
StreamTakesSameBranch ==
    ans.fn = "generate_answer_stream"
        => /\ ans.llm_calls = Returned.llm_calls
           /\ (StreamWithoutLlm /\ ans.reply \in ConversationalReplies)
                 => (ans.reply = Returned.reply /\ ans.yielded = "chars")
           /\ (StreamWithoutLlm /\ ans.reply \notin ConversationalReplies)
                 => (ans.reply = NotFoundReply("generate_answer_stream")
                     /\ Returned.reply = NotFoundReply("generate_answer"))

\* a conversational query was streamed one character per item
ConversationalReplyStreamed ==
    StreamWithoutLlm /\ ans.reply \in ConversationalReplies /\ ans.yielded = "chars"

====
